---- MODULE Spec2Model ----
(***************************************************************************)
(* Cine: the window controller (src/src/window.py), the options popover    *)
(* (src/src/options.py) and the preferences (src/src/preferences.py) as a  *)
(* state machine.                                                          *)
(*                                                                         *)
(* The playback engine (mpv) is a record of properties.  A change of an    *)
(* observed property marks the property in `events`; the binding's event   *)
(* thread hands each marked property, with the value it has by then, to    *)
(* the observer registered in _setup_observers.  GLib.idle_add appends a   *)
(* closure to `idle`, which the UI thread runs in order.  Every handler is *)
(* a function from program state to program state; an action commits the   *)
(* state a handler returns.                                                *)
(*                                                                         *)
(* The properties fall into groups that do not read each other; each group *)
(* has a specification of its own over the same variables and handlers:    *)
(* SpecHide (auto-hide of the chrome), SpecNav (playlist navigation),      *)
(* SpecBridge (volume, mute, options popover), SpecEvents (progress, end   *)
(* of file, pause), SpecPicture (rotation, aspect ratio), SpecAdjust (the  *)
(* numeric adjustments), SpecOpen (file and folder dialogs, drops),        *)
(* SpecClose (closing the window), SpecLoad (loading and failing files),   *)
(* SpecSettings (preferences), SpecDrop (dropped files), SpecScroll        *)
(* (scrolling over the progress bar), SpecFs (fullscreen), SpecChrome      *)
(* (auto-hide in fullscreen), SpecKeys (key presses), SpecToggles (mute    *)
(* and loop toggles), SpecChapters (chapter marks), SpecReset (the         *)
(* popover's Reset All), SpecVolume (the volume slider), SpecPlaylist (the *)
(* playlist filled and stepped through).  SpecFsFair and SpecTogglesFair   *)
(* add the fairness of the event thread, the main loop and the window      *)
(* system.                                                                 *)
(***************************************************************************)
EXTENDS Integers, Sequences, FiniteSets, TLC

VARIABLES
    mpv,      \* the engine's properties
    events,   \* notifications pending on the binding's event thread
    idle,     \* closures queued with GLib.idle_add
    timers,   \* live GLib timeout sources of the auto-hide
    w,        \* widget state
    win,      \* attributes of CineWindow
    env       \* pointer, window system, application

vars == <<mpv, events, idle, timers, w, win, env>>

(***************************************************************************)
(* Bounds                                                                  *)
(***************************************************************************)
MaxEvents == 1      \* notifications pending when a further change is made
MaxIdle == 1        \* closures queued when an observer queues further ones
MaxCount == 3       \* playlist entries
MaxTime == 1        \* seconds of the file
MaxAsync == 1       \* asynchronous commands the engine has not run yet
NumRatios == 3      \* entries of the aspect-ratio list
MaxAdj == 2         \* steps from a property's default to the end of its range
MaxOff == 2         \* properties away from their defaults at a time
MaxDrop == 2        \* items of one drop
MaxScroll == 2      \* scroll steps the file of the scroll slice is long
MaxGestures == 3    \* fullscreen gestures of the user and the window system

\* Pointer positions: the one __init__ records and another.
Positions == {0, 1}
Times == 0..MaxTime

(***************************************************************************)
(* Program constants                                                       *)
(***************************************************************************)
HideDelay == 2
TabHideDelay == 3
VolumeMax == 150    \* volume_max of the engine's construction
VolumeStep == 5      \* the volume step of a scroll
ScrollGap == 2      \* tenths of a second between two accepted scrolls
ScrollStep == 10    \* seconds a scroll on the progress bar seeks

MenuButtons ==
    {"primary_menu_button", "open_menu_button", "options_menu_button",
     "volume_menu_button", "subtitles_menu_button", "audio_tracks_menu_button"}

\* Python's None and a missing attribute, for integer-valued attributes.
\* None is 0 where the code only tests the value's truth (`or 0`, `if value`).
None == 0
Unset == -1

\* The volumes the slider and the engine take here, of 0..volume_max.
Volumes == {0, 50, 100}

\* The spin buttons of the options popover, in the order _on_active syncs
\* them, with the engine property each mirrors and the default `or` gives.
\* Zoom, the delays and the speed are counted in tenths (speed 10 is 1.0x),
\* the others in units.
Spins ==
    << [spin |-> "zoom_spin", prop |-> "video-zoom", dflt |-> 0, int |-> FALSE],
       [spin |-> "contrast_spin", prop |-> "contrast", dflt |-> 0, int |-> TRUE],
       [spin |-> "brightness_spin", prop |-> "brightness", dflt |-> 0, int |-> TRUE],
       [spin |-> "gamma_spin", prop |-> "gamma", dflt |-> 0, int |-> TRUE],
       [spin |-> "saturation_spin", prop |-> "saturation", dflt |-> 0, int |-> TRUE],
       [spin |-> "sub_delay_spin", prop |-> "sub-delay", dflt |-> 0, int |-> FALSE],
       [spin |-> "audio_delay_spin", prop |-> "audio-delay", dflt |-> 0, int |-> FALSE],
       [spin |-> "speed_spin", prop |-> "speed", dflt |-> 10, int |-> FALSE] >>

\* The values a spin button and its property take here.
SpinValues == {0, 1, 2}

\* The properties _setup_observers observes.
Observed ==
    {"fullscreen", "idle_active", "playlist_count", "playlist_pos",
     "loop_playlist", "loop_file", "volume", "mute", "time_pos", "pause",
     "eof_reached", "chapter_list"}

(***************************************************************************)
(* The program state a handler works on, and its commit.  Besides the      *)
(* variables a handler's state carries the thread it runs on, the callback *)
(* it runs for, and `obs`: what the handler did to the engine (writes and  *)
(* commands outside a user gesture, the commands in order) and the widgets *)
(* it touched off the UI thread, the engine calls the UI thread waited for, *)
(* and whether an exception left the handler.                              *)
(***************************************************************************)
NoObs ==
    [writeback |-> {}, offthread |-> {}, cmds |-> <<>>, waited |-> {},
     escaped |-> FALSE, calls |-> <<>>]

Cur(thread, origin) ==
    [mpv |-> mpv, events |-> events, idle |-> idle, timers |-> timers,
     w |-> w, win |-> win, env |-> env, obs |-> NoObs,
     thread |-> thread, origin |-> origin]

\* The program's state after a handler has run.
Step(s) ==
    /\ mpv' = s.mpv
    /\ events' = s.events
    /\ idle' = s.idle
    /\ timers' = s.timers
    /\ w' = s.w
    /\ win' = s.win
    /\ env' = s.env

\* A step that marks a further notification is taken while fewer than
\* MaxEvents others are pending, one that queues closures while fewer than MaxIdle
\* are queued, one that sends an asynchronous command while fewer than
\* MaxAsync wait in the engine.
Commit(s) ==
    /\ (s.events \ events # {}) => Cardinality(events \cap s.events) < MaxEvents
    /\ (Len(s.idle) > Len(idle)) => Len(idle) < MaxIdle
    /\ (Len(s.mpv.pending) > Len(mpv.pending)) => Len(mpv.pending) < MaxAsync
    /\ Step(s)

(***************************************************************************)
(* Toolkit and engine primitives                                           *)
(***************************************************************************)
\* A widget call made by a thread other than the UI thread is recorded.
Touch(s, widget) ==
    IF s.thread = "ui" THEN s ELSE [s EXCEPT !.obs.offthread = @ \cup {widget}]

\* GLib.idle_add(fn, arg): the closure runs later on the UI thread.
idle_add(s, fn, arg) ==
    [s EXCEPT !.idle = Append(@, [fn |-> fn, arg |-> arg, origin |-> s.origin])]

\* A property write or command that reaches the engine is recorded in the
\* order of the calls, and outside a user gesture with the callback it came
\* from.
Dispatch(s, op) ==
    IF s.origin = "user" THEN [s EXCEPT !.obs.calls = Append(@, op)]
    ELSE [s EXCEPT !.obs.calls = Append(@, op),
                   !.obs.writeback = @ \cup {<<s.origin, op>>}]

\* The engine changes a property: when the value changed and the property is
\* observed, a notification is pending for its observer.
EngineChange(s, prop, value) ==
    IF s.mpv[prop] = value THEN s
    ELSE [s EXCEPT !.mpv[prop] = value,
                   !.events = IF prop \in Observed
                              THEN @ \cup {[name |-> prop, arg |-> ""]}
                              ELSE @]

\* self.mpv.<prop> = value
SetProperty(s, prop, value) == EngineChange(Dispatch(s, prop), prop, value)

\* self.mpv[name] = value, for the options the popover mirrors.
SetOption(s, name, value) ==
    [Dispatch(s, name) EXCEPT !.mpv.opts[name] = value]

\* self.mpv.command(name, arg), self.mpv.<command>(arg): what was sent; the
\* engine's answer is applied by the caller.  The call returns when the
\* engine has run the command: a caller on the UI thread waits for it.
Command(s, name, arg) ==
    [Dispatch(s, name) EXCEPT
        !.obs.cmds = Append(@, <<name, arg>>),
        !.obs.waited = IF s.thread = "ui" THEN @ \cup {name} ELSE @]

\* self.mpv.command_async(name, arg): the command is handed to the engine,
\* which runs it later; the caller does not wait.
command_async(s, name, arg) ==
    [Dispatch(s, name) EXCEPT
        !.obs.cmds = Append(@, <<name, arg>>),
        !.mpv.pending = Append(@, <<name, arg>>)]

\* An engine call after the core has shut down raises mpv.ShutdownError; in
\* a handler that has no try around the call the exception leaves the handler.
Raise(s) == [s EXCEPT !.obs.escaped = TRUE]

\* The engine's `set <property> <value>`, on the engine's properties.
EngineSet(m, prop, val) ==
    IF prop = "video-rotate" THEN [m EXCEPT !.video_rotate = val]
    ELSE IF prop = "video-aspect-override"
    THEN [m EXCEPT !.video_aspect_override = val]
    ELSE [m EXCEPT !.opts[prop] = val]

\* The engine's `stop`: playback ends and the playlist is cleared.
stop(s) ==
    LET a == Command(s, "stop", <<>>)
        b == EngineChange(a, "playlist_count", 0)
        c == EngineChange(b, "playlist_pos", -1)
        d == EngineChange(c, "time_pos", None)
        e == EngineChange(d, "eof_reached", FALSE)
    IN  EngineChange(e, "idle_active", TRUE)

\* The engine's `loadfile <path> append-play`: the entry is appended, and
\* played when nothing is playing.
loadfile(s) ==
    LET a == Command(s, "loadfile", <<"append-play">>)
        b == EngineChange(a, "playlist_count", s.mpv.playlist_count + 1)
    IN  IF s.mpv.idle_active
        THEN EngineChange(EngineChange(b, "playlist_pos", s.mpv.playlist_count),
                          "idle_active", FALSE)
        ELSE b

\* The engine's `seek <t> absolute`.
seek(s, t) ==
    LET a == Command(s, "seek", <<t, "absolute">>)
        b == EngineChange(a, "time_pos", t)
    IN  IF t < MaxTime THEN EngineChange(b, "eof_reached", FALSE) ELSE b

\* GLib source ids are never reused: a new id differs from every live source
\* and from the id the window still holds.
NewSourceId(s) ==
    CHOOSE i \in 1..(Cardinality(s.timers) + 2) :
        /\ i \notin {t.id : t \in s.timers} \cup {s.win.hide_timeout_id}
        /\ \A j \in 1..(i - 1) :
               j \in {t.id : t \in s.timers} \cup {s.win.hide_timeout_id}

source_remove(tm, id) == {t \in tm : t.id # id}

timeout_add_seconds(tm, id, sec) == tm \cup {[id |-> id, left |-> sec]}

(***************************************************************************)
(* Auto-hide of the chrome (header bar and controls)                       *)
(***************************************************************************)
_show_ui(s) ==
    LET a == Touch(s, "window")
        b == [a EXCEPT !.w.cursor = "default"]
        c == Touch(b, "revealer_ui")
    IN  [c EXCEPT !.w.revealer_ui = TRUE]

\* _hide_ui_timeout without the GLib.source_remove of the pending timeout.
_hide_ui_timeout_no_cancel(s, sec) ==
    LET id == NewSourceId(s)
    IN  [s EXCEPT !.timers = timeout_add_seconds(@, id, sec),
                  !.win.hide_timeout_id = id]

_hide_ui_timeout(s, sec) ==
    LET held == s.win.hide_timeout_id
        kept == IF held # Unset /\ held # None
                THEN source_remove(s.timers, held) ELSE s.timers
        id == NewSourceId(s)
    IN  [s EXCEPT !.timers = timeout_add_seconds(kept, id, sec),
                  !.win.hide_timeout_id = id]

\* active_or_hover that leaves the menu buttons out.
active_or_hover_without_menus(s) ==
    \/ s.mpv.idle_active
    \/ s.env.pointer = "header"
    \/ s.env.pointer = "controls"

active_or_hover(s) ==
    \/ s.mpv.idle_active
    \/ s.env.pointer = "header"
    \/ s.env.pointer = "controls"
    \/ s.env.menu_active \in MenuButtons

_hide_ui(s) ==
    LET a == Touch(s, "chapter_popover")
        b == [a EXCEPT !.w.chapter_popover = FALSE,
                       !.win.hide_timeout_id = None]
        c == IF ~active_or_hover(b)
             THEN [Touch(b, "revealer_ui") EXCEPT !.w.revealer_ui = FALSE]
             ELSE b
        d == IF b.win.is_fullscreen # 0 /\ ~active_or_hover(b) /\ ~b.env.dialogs
             THEN [Touch(c, "window") EXCEPT !.w.cursor = "none"]
             ELSE c
    IN  IF s.mpv.core_shutdown THEN b ELSE d

\* _on_mouse_motion that shows the chrome and leaves the pending timeout alone.
_on_mouse_motion_no_rearm(s, xy) ==
    IF xy = s.win.prev_motion_xy THEN s
    ELSE _show_ui([s EXCEPT !.win.prev_motion_xy = xy])

_on_mouse_motion(s, xy) ==
    IF xy = s.win.prev_motion_xy THEN s
    ELSE _hide_ui_timeout(_show_ui([s EXCEPT !.win.prev_motion_xy = xy]), HideDelay)

\* The "closed" signal of a menu button's popover, connected to _hide_ui_timeout.
_on_popover_closed(s) == _hide_ui_timeout(s, HideDelay)

_set_fs_state(s) ==
    LET is_fullscreen == s.env.toplevel_fs
        a == IF s.mpv.core_shutdown THEN s
             ELSE SetProperty(s, "fullscreen", is_fullscreen)
        b == [Touch(a, "headerbar") EXCEPT
                 !.w.decoration_layout =
                     IF is_fullscreen THEN "close" ELSE "settings"]
    IN  _hide_ui_timeout(b, HideDelay)

\* self.fullscreen() and self.unfullscreen() ask the window system, which
\* answers with a change of the toplevel's state.
_sync_fullscreen(s, mpv_is_fs) ==
    [Touch(s, "window") EXCEPT
        !.win.is_fullscreen = IF mpv_is_fs THEN 1 ELSE 0,
        !.env.fs_requests = Append(@, mpv_is_fs)]

\* The window system carries out the oldest request: when it changes the
\* toplevel's fullscreen state, notify::state runs _set_fs_state.
toplevel_answer(s) ==
    LET r == Head(s.env.fs_requests)
        a == [s EXCEPT !.env.fs_requests = Tail(@)]
    IN  IF r = s.env.toplevel_fs THEN a
        ELSE _set_fs_state([a EXCEPT !.env.toplevel_fs = r])

\* The clicked handler of fullscreen_button.
fullscreen_button_clicked(s) ==
    IF s.mpv.core_shutdown THEN Raise(s)
    ELSE SetProperty(s, "fullscreen", s.win.is_fullscreen = 0)

\* The chord forwarded to the engine: the modifiers in the order ctrl, alt,
\* shift, then the key; Shift on a single letter upper-cases the key.
Letters == {"a"}
Upper(k) == IF k = "a" THEN "A" ELSE k

\* KEY_REMAP (imported from the package's utils) gives the engine's name
\* for the keys the toolkit names otherwise.
KEY_REMAP(key_name) == IF key_name = "Return" THEN "ENTER" ELSE key_name

\* A chord with shift named before ctrl and alt.
full_combo_shift_first(key_name, state) ==
    LET remapped == KEY_REMAP(key_name)
        shifted == "shift" \in state /\ remapped \in Letters
        mpv_key == IF shifted THEN Upper(remapped) ELSE remapped
    IN  (IF "shift" \in state /\ ~shifted THEN <<"shift">> ELSE <<>>)
        \o (IF "ctrl" \in state THEN <<"ctrl">> ELSE <<>>)
        \o (IF "alt" \in state THEN <<"alt">> ELSE <<>>)
        \o <<mpv_key>>

full_combo(key_name, state) ==
    LET remapped == KEY_REMAP(key_name)
        shifted == "shift" \in state /\ remapped \in Letters
        mpv_key == IF shifted THEN Upper(remapped) ELSE remapped
    IN  (IF "ctrl" \in state THEN <<"ctrl">> ELSE <<>>)
        \o (IF "alt" \in state THEN <<"alt">> ELSE <<>>)
        \o (IF "shift" \in state /\ ~shifted THEN <<"shift">> ELSE <<>>)
        \o <<mpv_key>>

\* _on_key_pressed whose Tab branch arms the timeout without revealing.
_on_key_pressed_tab_no_reveal(s, key_name, state, bound) ==
    IF key_name = "Escape"
    THEN IF s.mpv.core_shutdown THEN Raise(s) ELSE SetProperty(s, "fullscreen", FALSE)
    ELSE IF key_name = "Tab" THEN _hide_ui_timeout(s, TabHideDelay)
    ELSE IF bound THEN s
    ELSE IF s.mpv.core_shutdown THEN s
    ELSE Command(s, "keypress", full_combo(key_name, state))

_on_key_pressed(s, key_name, state, bound) ==
    IF key_name = "Escape"
    THEN IF s.mpv.core_shutdown THEN Raise(s) ELSE SetProperty(s, "fullscreen", FALSE)
    ELSE IF key_name = "Tab"
    THEN _hide_ui_timeout([Touch(s, "revealer_ui") EXCEPT !.w.revealer_ui = TRUE],
                          TabHideDelay)
    ELSE IF bound THEN s
    ELSE IF s.mpv.core_shutdown THEN s
    ELSE Command(s, "keypress", full_combo(key_name, state))

\* MBTN_MAP maps the pointer buttons to the engine's button names.
_on_click_pressed(s, mpv_button) ==
    IF s.mpv.core_shutdown THEN Raise(s) ELSE Command(s, "keydown", <<mpv_button>>)

_on_click_released(s, mpv_button) ==
    IF s.mpv.core_shutdown THEN Raise(s) ELSE Command(s, "keyup", <<mpv_button>>)

_on_open_sub_menu(s) ==
    [Touch(_show_ui(s), "subtitles_menu_button") EXCEPT
        !.env.menu_active = "subtitles_menu_button"]

_on_open_audio_menu(s) ==
    [Touch(_show_ui(s), "audio_tracks_menu_button") EXCEPT
        !.env.menu_active = "audio_tracks_menu_button"]

(***************************************************************************)
(* Idle inhibition                                                         *)
(***************************************************************************)
\* A _sync_inhibit that looks at pause alone.
_sync_inhibit_pause_only(s) ==
    LET should_inhibit == ~s.mpv.pause
    IN  IF s.mpv.core_shutdown THEN Raise(s)
        ELSE IF should_inhibit /\ s.win.inhibit_id = 0
        THEN [s EXCEPT !.win.inhibit_id = 1, !.env.inhibits = @ + 1]
        ELSE IF ~should_inhibit /\ s.win.inhibit_id # 0
        THEN [s EXCEPT !.win.inhibit_id = 0, !.env.inhibits = @ - 1]
        ELSE s

\* A _sync_inhibit that asks whenever playback goes on, held or not.
_sync_inhibit_asks_again(s) ==
    LET should_inhibit == ~s.mpv.pause /\ ~s.mpv.idle_active
    IN  IF s.mpv.core_shutdown THEN Raise(s)
        ELSE IF should_inhibit
        THEN [s EXCEPT !.win.inhibit_id = 1, !.env.inhibits = @ + 1]
        ELSE IF s.win.inhibit_id # 0
        THEN [s EXCEPT !.win.inhibit_id = 0, !.env.inhibits = @ - 1]
        ELSE s

\* Reading a property of an engine that has shut down raises ShutdownError,
\* which _sync_inhibit does not catch: the call ends there.
_sync_inhibit(s) ==
    LET should_inhibit == ~s.mpv.pause /\ ~s.mpv.idle_active
    IN  IF s.mpv.core_shutdown THEN Raise(s)
        ELSE IF should_inhibit /\ s.win.inhibit_id = 0
        THEN [s EXCEPT !.win.inhibit_id = 1, !.env.inhibits = @ + 1]
        ELSE IF ~should_inhibit /\ s.win.inhibit_id # 0
        THEN [s EXCEPT !.win.inhibit_id = 0, !.env.inhibits = @ - 1]
        ELSE s

(***************************************************************************)
(* Observers (_setup_observers): each runs on the binding's event thread.  *)
(***************************************************************************)
on_fs_change(s, value) == idle_add(s, "on_fs_change.update", value)

on_fs_change_update(s, value) ==
    LET a == [Touch(s, "fullscreen_button") EXCEPT
                 !.w.fullscreen_icon =
                     IF value THEN "view-restore-symbolic"
                     ELSE "view-fullscreen-symbolic"]
    IN  _sync_fullscreen(a, value)

on_idle_change(s, is_idle) == idle_add(s, "on_idle_change.update_state", is_idle)

\* update_state that leaves the start page as it is.
on_idle_change_update_state_keeps_start_page(s, is_idle) ==
    LET a == [s EXCEPT !.win.open_sub_menu_enabled = ~is_idle,
                       !.win.open_audio_menu_enabled = ~is_idle]
        c == [Touch(a, "controls_box") EXCEPT !.w.controls_box = ~is_idle]
        d == [Touch(c, "gl_area") EXCEPT !.w.gl_area = ~is_idle]
        e == IF is_idle
             THEN [Touch(Touch(d, "revealer_ui"), "window") EXCEPT
                      !.w.revealer_ui = TRUE, !.w.title = "Cine"]
             ELSE d
    IN  _sync_inhibit(e)

on_idle_change_update_state(s, is_idle) ==
    LET a == [s EXCEPT !.win.open_sub_menu_enabled = ~is_idle,
                       !.win.open_audio_menu_enabled = ~is_idle]
        b == [Touch(a, "start_page") EXCEPT !.w.start_page = is_idle]
        c == [Touch(b, "controls_box") EXCEPT !.w.controls_box = ~is_idle]
        d == [Touch(c, "gl_area") EXCEPT !.w.gl_area = ~is_idle]
        e == IF is_idle
             THEN [Touch(Touch(d, "revealer_ui"), "window") EXCEPT
                      !.w.revealer_ui = TRUE, !.w.title = "Cine"]
             ELSE d
    IN  _sync_inhibit(e)


(***************************************************************************)
(* Playlist navigation                                                     *)
(***************************************************************************)
\* The enablement _update_playlist_nav_sensitivity computes, as a function of
\* its four inputs.  The engine gives loop-playlist "no" as False.
\* can_always_nav that leaves the shuffle toggle out.
can_always_nav_loop_only(count, loop_playlist, shuffle_enabled) ==
    count > 1 /\ loop_playlist # "no"

can_always_nav(count, loop_playlist, shuffle_enabled) ==
    LET loop_list_enabled == loop_playlist # "no"
        has_multiple == count > 1
    IN  has_multiple /\ (shuffle_enabled \/ loop_list_enabled)

can_go_prev(count, pos, loop_playlist, shuffle_enabled) ==
    LET has_multiple == count > 1
    IN  can_always_nav(count, loop_playlist, shuffle_enabled)
            \/ (has_multiple /\ pos > 0)

can_go_next(count, pos, loop_playlist, shuffle_enabled) ==
    LET has_multiple == count > 1
    IN  can_always_nav(count, loop_playlist, shuffle_enabled)
            \/ (has_multiple /\ pos < count - 1)

\* `x or 0` on an integer.
or0(x) == IF x = None THEN 0 ELSE x

\* Reading a property of an engine that has shut down raises ShutdownError,
\* which ends the handler where it stands.
_update_playlist_nav_sensitivity(s) ==
    LET count == or0(s.mpv.playlist_count)
        pos == or0(s.mpv.playlist_pos)
        loop == s.mpv.loop_playlist
        shuffle_enabled == s.w.shuffle_active
        a == Touch(s, "playlist_shuffle_toggle_button")
        b == [a EXCEPT
                 !.win.can_always_nav = can_always_nav(count, loop, shuffle_enabled),
                 !.win.can_go_prev = can_go_prev(count, pos, loop, shuffle_enabled),
                 !.win.can_go_next = can_go_next(count, pos, loop, shuffle_enabled)]
        c == Touch(Touch(Touch(b, "previous_button"), "next_button"),
                   "playlist_loop_toggle_button")
    IN  IF s.mpv.core_shutdown THEN Raise(s)
        ELSE [c EXCEPT !.w.previous_sensitive = b.win.can_go_prev,
                       !.w.next_sensitive = b.win.can_go_next,
                       !.w.shuffle_sensitive = count > 1,
                       !.w.loop_playlist_sensitive = count > 1]

\* The engine shuffles or restores the order of the playlist; the entry that
\* plays keeps playing and is found at index newpos afterwards.  No playlist
\* dialog is open.
_on_shuffle_toggled(s, newpos) ==
    LET name == IF s.w.shuffle_active THEN "playlist-shuffle"
                ELSE "playlist-unshuffle"
    IN  IF s.mpv.core_shutdown THEN Raise(s)
        ELSE EngineChange(Command(s, name, <<>>), "playlist_pos", newpos)

\* The indices the playing entry can have after a shuffle.
ShuffledPos(count) == IF count = 0 THEN {-1} ELSE 0..(count - 1)

\* The branches of the two loop handlers for a button that became inactive.
_on_loop_file_toggled_off(s) ==
    IF s.mpv.core_shutdown THEN Raise(s) ELSE SetProperty(s, "loop_file", "no")

_on_loop_playlist_toggled_off(s) ==
    IF s.mpv.core_shutdown THEN Raise(s)
    ELSE _update_playlist_nav_sensitivity(SetProperty(s, "loop_playlist", "no"))

\* The handlers run after the button changed: a button emits "toggled" only
\* when set_active (or props.active) changes its state.
\* _on_loop_playlist_toggled that leaves the loop-file button as it is.
_on_loop_playlist_toggled_keeps_file_button(s) ==
    IF ~s.w.loop_playlist_active THEN _on_loop_playlist_toggled_off(s)
    ELSE IF s.mpv.core_shutdown THEN Raise(s)
    ELSE LET a == SetProperty(s, "loop_playlist", "inf")
             b == SetProperty(a, "loop_file", "no")
         IN  _update_playlist_nav_sensitivity(b)

_on_loop_playlist_toggled(s) ==
    IF ~s.w.loop_playlist_active THEN _on_loop_playlist_toggled_off(s)
    ELSE IF s.mpv.core_shutdown THEN Raise(s)
    ELSE LET a == SetProperty(s, "loop_playlist", "inf")
             b == SetProperty(a, "loop_file", "no")
             c == IF b.w.loop_file_active
                  THEN _on_loop_file_toggled_off(
                           [b EXCEPT !.w.loop_file_active = FALSE])
                  ELSE b
         IN  _update_playlist_nav_sensitivity(c)

_on_loop_file_toggled(s) ==
    IF ~s.w.loop_file_active THEN _on_loop_file_toggled_off(s)
    ELSE IF s.mpv.core_shutdown THEN Raise(s)
    ELSE LET a == SetProperty(s, "loop_file", "inf")
             b == SetProperty(a, "loop_playlist", "no")
         IN  IF b.w.loop_playlist_active
             THEN _on_loop_playlist_toggled_off(
                      [b EXCEPT !.w.loop_playlist_active = FALSE])
             ELSE b

\* playlist_loop_toggle_button.set_active, loop_file_toggle_button.set_active
playlist_loop_toggle_button_set_active(s, value) ==
    IF Touch(s, "playlist_loop_toggle_button").w.loop_playlist_active = value
    THEN Touch(s, "playlist_loop_toggle_button")
    ELSE _on_loop_playlist_toggled(
             [Touch(s, "playlist_loop_toggle_button") EXCEPT
                 !.w.loop_playlist_active = value])

loop_file_toggle_button_set_active(s, value) ==
    IF s.w.loop_file_active = value THEN Touch(s, "loop_file_toggle_button")
    ELSE _on_loop_file_toggled(
             [Touch(s, "loop_file_toggle_button") EXCEPT
                 !.w.loop_file_active = value])

\* self.mpv.playlist_pos = index: the engine refuses an index that names no
\* entry.
set_playlist_pos(s, index) ==
    IF index \in 0..(s.mpv.playlist_count - 1)
    THEN SetProperty(s, "playlist_pos", index)
    ELSE Dispatch(s, "playlist_pos")

\* playlist_prev and playlist_next move the engine by one entry where there
\* is one, and wrap with loop-playlist.

\* A previous that asks the engine for the entry before in every case.
_on_previous_clicked_no_wrap(s) ==
    LET pos == s.mpv.playlist_pos
    IN  IF s.mpv.core_shutdown THEN Raise(s)
        ELSE EngineChange(Command(s, "playlist-prev", <<>>), "playlist_pos",
                          IF pos > 0 THEN pos - 1 ELSE pos)

_on_previous_clicked(s) ==
    LET pos == s.mpv.playlist_pos
        count == s.mpv.playlist_count
    IN  IF s.mpv.core_shutdown THEN Raise(s)
        ELSE IF pos = 0 THEN set_playlist_pos(s, count - 1)
        ELSE EngineChange(Command(s, "playlist-prev", <<>>), "playlist_pos",
                          IF pos > 0 THEN pos - 1 ELSE pos)

_on_next_clicked(s) ==
    LET pos == s.mpv.playlist_pos
        count == s.mpv.playlist_count
    IN  IF s.mpv.core_shutdown THEN Raise(s)
        ELSE IF pos = count - 1 THEN set_playlist_pos(s, 0)
        ELSE EngineChange(Command(s, "playlist-next", <<>>), "playlist_pos",
                          IF pos < count - 1 THEN pos + 1 ELSE pos)

\* The engine's loadfile with the path it is given.
loadfile_path(s, path) ==
    LET a == loadfile(s)
    IN  [a EXCEPT !.obs.cmds[Len(a.obs.cmds)] =
                      <<"loadfile", <<path, "append-play">>>>]

\* The loop of _on_open_response over the files chosen, from file k on.
RECURSIVE open_files(_, _, _, _)
open_files(s, mode, files, k) ==
    IF k > Len(files) THEN s
    ELSE LET path == files[k]
             a == IF mode = "sub-add" THEN Command(s, "sub-add", <<path>>)
                  ELSE IF mode = "audio-add" THEN Command(s, "audio-add", <<path>>)
                  ELSE loadfile_path(s, path)
         IN  open_files(a, mode, files, k + 1)

\* _on_open_response: the files chosen in the dialog, a sequence of paths in
\* the order of the selection, are added, and the shuffle is applied again
\* from an idle callback.  No file is a dialog that failed or was dismissed:
\* open_multiple_finish raises GLib.Error, which the handler prints (no
\* playlist dialog is open).
\* An _on_open_response that stops the engine before it asks for the files.
_on_open_response_stops_first(s, mode, files) ==
    LET a == IF mode = "clear-and-add" THEN stop(s) ELSE s
        b == open_files(a, mode, files, 1)
        c == IF mode = "clear-and-add" THEN SetProperty(b, "pause", FALSE) ELSE b
    IN  IF s.mpv.core_shutdown THEN Raise(s)
        ELSE IF files = <<>> THEN a
        ELSE idle_add(c, "_on_shuffle_toggled", FALSE)

\* An _on_open_response that stops the engine after the files are appended.
_on_open_response_stops_last(s, mode, files) ==
    LET a == open_files(s, mode, files, 1)
        b == IF mode = "clear-and-add" THEN stop(a) ELSE a
        c == IF mode = "clear-and-add" THEN SetProperty(b, "pause", FALSE) ELSE b
    IN  IF files = <<>> THEN s
        ELSE IF s.mpv.core_shutdown THEN Raise(s)
        ELSE idle_add(c, "_on_shuffle_toggled", FALSE)

_on_open_response(s, mode, files) ==
    LET a == IF mode = "clear-and-add" THEN stop(s) ELSE s
        b == open_files(a, mode, files, 1)
        c == IF mode = "clear-and-add" THEN SetProperty(b, "pause", FALSE) ELSE b
    IN  IF files = <<>> THEN s
        ELSE IF s.mpv.core_shutdown THEN Raise(s)
        ELSE idle_add(c, "_on_shuffle_toggled", FALSE)

\* on_open of _on_open_folder_dialog: the folder chosen replaces what plays;
\* a dialog that failed or was dismissed raises GLib.Error in
\* select_folder_finish, which the callback prints.
_on_open_folder_dialog_on_open(s, ok) ==
    IF ~ok THEN s
    ELSE IF s.mpv.core_shutdown THEN Raise(s)
    ELSE idle_add(loadfile(stop(s)), "_on_shuffle_toggled", FALSE)

\* on_read_done of _on_drop_enter: the drop indicator names what the drop
\* will do; a list of files that cannot be read raises GLib.Error, for which
\* the callback adds a toast and hides the spinner.
on_read_done(s, ok, is_sub) ==
    IF ~ok
    THEN [Touch(Touch(s, "toast_overlay"), "spinner") EXCEPT
             !.w.toast = TRUE, !.w.spinner = FALSE]
    ELSE IF s.mpv.core_shutdown THEN Raise(s)
    ELSE [Touch(s, "drop_icon") EXCEPT
             !.w.drop_icon = IF ~s.mpv.idle_active /\ is_sub
                             THEN "media-view-subtitles-symbolic"
                             ELSE "list-add-symbolic"]

\* A dropped item as _on_drop sees it: whether query_info gives the type
\* DIRECTORY, whether the lower-cased basename ends with one of SUB_EXTS, and
\* whether the content type starts with video/, audio/ or image/ (that of
\* a directory is inode/directory).
DroppedItems ==
    {f \in [dir : BOOLEAN, sub_ext : BOOLEAN, media : BOOLEAN] : f.dir => ~f.media}

\* The loop of _on_drop over value.get_files(), from item k on; is_playing
\* was read before the loop.
RECURSIVE drop_files(_, _, _, _, _)
drop_files(s, files, k, is_playing, from_playlist) ==
    IF k > Len(files) THEN s
    ELSE LET file == files[k]
             a == IF file.dir THEN loadfile(s)
                  ELSE IF file.sub_ext
                  THEN IF is_playing /\ ~from_playlist
                       THEN Command(s, "sub-add", <<"select">>)
                       ELSE s
                  ELSE IF file.media THEN loadfile(s)
                  ELSE s
         IN  drop_files(a, files, k + 1, is_playing, from_playlist)

\* _on_drop that reads is_playing as `self.mpv.idle_active`.
_on_drop_sub_when_idle(s, files, from_playlist) ==
    LET was_empty == s.mpv.playlist_count = 0
        a == drop_files(s, files, 1, s.mpv.idle_active, from_playlist)
        b == IF was_empty /\ a.mpv.playlist_count > 0
             THEN SetProperty(a, "pause", FALSE)
             ELSE a
    IN  IF s.mpv.core_shutdown THEN Raise(s)
        ELSE idle_add(b, "_on_shuffle_toggled", FALSE)

_on_drop(s, files, from_playlist) ==
    LET was_empty == s.mpv.playlist_count = 0
        is_playing == ~s.mpv.idle_active
        a == drop_files(s, files, 1, is_playing, from_playlist)
        b == IF was_empty /\ a.mpv.playlist_count > 0
             THEN SetProperty(a, "pause", FALSE)
             ELSE a
    IN  IF s.mpv.core_shutdown THEN Raise(s)
        ELSE idle_add(b, "_on_shuffle_toggled", FALSE)

(***************************************************************************)
(* Volume, mute, progress                                                  *)
(***************************************************************************)
_update_volume_icon(s, is_muted) ==
    LET volume == s.mpv.volume
        icon == IF is_muted \/ volume = 0 THEN "audio-volume-muted-symbolic"
                ELSE IF volume < 33 THEN "audio-volume-low-symbolic"
                ELSE IF volume < 66 THEN "audio-volume-medium-symbolic"
                ELSE "audio-volume-high-symbolic"
    IN  IF s.mpv.core_shutdown THEN Raise(s)
        ELSE [Touch(s, "volume_menu_button") EXCEPT !.w.volume_icon = icon]

\* The "value-changed" handler of volume_scale.
volume_value_changed(s) ==
    IF s.mpv.core_shutdown THEN Raise(s) ELSE SetProperty(s, "volume", s.w.volume_adj)

\* volume_scale_adjustment.set_value: "value-changed" is emitted when the
\* value changes, and reaches the handler unless the handler is blocked.
volume_scale_adjustment_set_value(s, value) ==
    LET a == Touch(s, "volume_scale_adjustment")
    IN  IF a.w.volume_adj = value THEN a
        ELSE IF a.w.volume_blocked THEN [a EXCEPT !.w.volume_adj = value]
        ELSE volume_value_changed([a EXCEPT !.w.volume_adj = value])

\* update_icon_and_vol_adj without handler_block and handler_unblock.
update_icon_and_vol_adj_unblocked(s, value) ==
    _update_volume_icon(volume_scale_adjustment_set_value(s, value), s.mpv.mute)

update_icon_and_vol_adj(s, value) ==
    LET a == [Touch(s, "volume_scale") EXCEPT !.w.volume_blocked = TRUE]
        b == volume_scale_adjustment_set_value(a, value)
        c == [b EXCEPT !.w.volume_blocked = FALSE]
    IN  _update_volume_icon(c, s.mpv.mute)

_on_mute_toggled(s) ==
    IF s.mpv.core_shutdown THEN Raise(s) ELSE SetProperty(s, "mute", s.w.mute_active)

mute_toggle_button_set_active(s, value) ==
    LET a == Touch(s, "mute_toggle_button")
    IN  IF a.w.mute_active = value THEN a
        ELSE _on_mute_toggled([a EXCEPT !.w.mute_active = value])

on_mute_change_update(s, value) ==
    _update_volume_icon(mute_toggle_button_set_active(s, value), value)

\* The progress scale seeks where the user, or an unblocked set_value, puts it.
_on_progress_adjusted(s) ==
    IF s.mpv.core_shutdown THEN Raise(s)
    ELSE LET t == s.w.progress_adj
             a == SetProperty(s, "time_pos", t)
         IN  IF t < MaxTime THEN EngineChange(a, "eof_reached", FALSE) ELSE a

\* video_progress_adjustment.set_value clamps to the adjustment's range.
video_progress_adjustment_set_value(s, value) ==
    LET a == Touch(s, "video_progress_adjustment")
        v == IF value > a.w.progress_upper THEN a.w.progress_upper
             ELSE IF value < 0 THEN 0 ELSE value
    IN  IF a.w.progress_adj = v THEN a
        ELSE IF a.w.progress_blocked THEN [a EXCEPT !.w.progress_adj = v]
        ELSE _on_progress_adjusted([a EXCEPT !.w.progress_adj = v])

\* format_time is defined outside the sources; the label holds its argument.
_update_progress(s, current_time) ==
    LET a == [Touch(s, "time_elapsed_label") EXCEPT
                 !.w.time_elapsed_label = current_time]
        b == [a EXCEPT !.w.progress_blocked = TRUE]
        c == video_progress_adjustment_set_value(b, current_time)
    IN  [c EXCEPT !.w.progress_blocked = FALSE]

_on_play_pause_clicked(s) ==
    IF s.mpv.core_shutdown THEN Raise(s) ELSE SetProperty(s, "pause", ~s.mpv.pause)

\* env.indicator_timeout: a 350 ms timeout that hides the pause indicator is
\* pending.
_update_play_pause_icon(s, is_paused) ==
    LET play_icon == "media-playback-start-symbolic"
        pause_icon == "media-playback-pause-symbolic"
        a == [Touch(Touch(s, "play_pause_button"), "pause_indicator") EXCEPT
                 !.w.play_pause_icon = IF is_paused THEN play_icon ELSE pause_icon,
                 !.w.pause_indicator_icon =
                     IF is_paused THEN pause_icon ELSE play_icon]
    IN  IF s.mpv.core_shutdown THEN Raise(a)
        ELSE IF ~s.mpv.idle_active
        THEN [Touch(a, "revealer_pause_indicator") EXCEPT
                 !.w.pause_indicator_revealed = TRUE,
                 !.env.indicator_timeout = TRUE]
        ELSE a

(***************************************************************************)
(* The options popover (options.py)                                        *)
(***************************************************************************)
\* The spin button's "value-changed" handler: _on_zoom_changed and the like.
\* int() of the handlers for the integer options leaves an integer as it is.
_on_spin_changed(s, sp) ==
    IF s.mpv.core_shutdown THEN Raise(s) ELSE SetOption(s, sp.prop, s.w.spin[sp.spin])

\* Gtk.SpinButton.set_value emits "value-changed" when the value changes.
spin_set_value(s, sp, val) ==
    IF s.w.spin[sp.spin] = val THEN s
    ELSE _on_spin_changed([s EXCEPT !.w.spin[sp.spin] = val], sp)

\* set_open_val that sets the value and runs the handler in every case.
set_open_val_always(s, sp, val) ==
    _on_spin_changed([s EXCEPT !.w.spin[sp.spin] = val], sp)

set_open_val(s, sp, val) ==
    IF s.w.spin[sp.spin] # val THEN spin_set_value(s, sp, val) ELSE s

\* float(self.win.mpv[prop] or default)
open_val(s, sp) ==
    IF s.mpv.opts[sp.prop] = None THEN sp.dflt ELSE s.mpv.opts[sp.prop]

RECURSIVE sync_spins(_, _)
sync_spins(s, k) ==
    IF k > Len(Spins) THEN s
    ELSE sync_spins(set_open_val(s, Spins[k], open_val(s, Spins[k])), k + 1)

\* The index of the aspect list whose ratio is the engine's override: 0 for
\* no override (-1), the entry of an override the list has, none otherwise.
AspectList == <<"Original", "16:9", "4:3">>
AspectOverrides == {-1, 1, 2, 9}

_on_aspect_changed(s) ==
    LET idx == s.w.aspect_selected
        val == IF AspectList[idx + 1] = "Original" THEN -1 ELSE idx
    IN  IF s.mpv.core_shutdown THEN Raise(s)
        ELSE command_async(s, "set", <<"video-aspect-override", val>>)

sync_aspect(s) ==
    LET aspect_overr == s.mpv.video_aspect_override
        target == IF aspect_overr # None /\ aspect_overr # -1
                  THEN aspect_overr ELSE -1
        i == IF target = -1 THEN 0 ELSE target
    IN  IF i \in 0..(Len(AspectList) - 1) /\ s.w.aspect_selected # i
        THEN _on_aspect_changed([s EXCEPT !.w.aspect_selected = i])
        ELSE s

\* notify::active of the options menu button.
_on_active(s) ==
    IF s.env.menu_active # "options_menu_button" THEN s
    ELSE IF s.mpv.core_shutdown THEN Raise(s)
    ELSE LET a == [s EXCEPT !.w.flip_box =
                       ~(s.env.settings["hwdec"] = "yes" /\ ~s.mpv.hwdec_copy)]
         IN  sync_spins(sync_aspect(a), 1)

(***************************************************************************)
(* The other observers and event callbacks of _setup_observers             *)
(***************************************************************************)
on_start_file(s) == idle_add(s, "spinner.set_visible", TRUE)

on_files_loaded(s) == idle_add(s, "spinner.set_visible", FALSE)

\* An on_end_file that stops the engine whatever the reason.
on_end_file_always_stops(s, reason) ==
    LET a == idle_add(s, "spinner.set_visible", FALSE)
        b == [Touch(a, "toast_overlay") EXCEPT !.w.toast = TRUE]
    IN  IF s.mpv.core_shutdown THEN Raise(IF reason # "error" THEN a ELSE b)
        ELSE IF reason # "error" THEN stop(a)
        ELSE stop(b)

\* on_end_file: the toast is made and added by the callback itself.
on_end_file(s, reason) ==
    LET a == idle_add(s, "spinner.set_visible", FALSE)
        b == [Touch(a, "toast_overlay") EXCEPT !.w.toast = TRUE]
    IN  IF reason # "error" THEN a
        ELSE IF s.mpv.core_shutdown THEN Raise(b)
        ELSE stop(b)

on_playlist_count_change(s, count) ==
    idle_add(s, "_update_playlist_nav_sensitivity", FALSE)

on_loop_playlist_change(s, value) ==
    idle_add(idle_add(s, "playlist_loop_toggle_button.set_active", value = "inf"),
             "_update_playlist_nav_sensitivity", FALSE)

on_loop_file_change(s, value) ==
    idle_add(s, "loop_file_toggle_button.set_active", value = "inf")

on_time_change(s, value) ==
    IF value # None THEN idle_add(s, "_update_progress", value) ELSE s

\* on_sid_change and on_aid_change, for the action "select-subtitle" or
\* "select-audio".  The engine's value is a track number ([int |-> TRUE]) or
\* one of its words, "no" and "auto" ([int |-> FALSE]).
on_track_change(s, action, value) ==
    idle_add(s, "on_track_change.set_val", <<action, value>>)

on_track_change_set_val(s, action, value) ==
    LET val == IF value.int THEN value.n ELSE 0
    IN  [s EXCEPT !.w.action_state[action] = val]

on_volume_change(s, value) ==
    idle_add(s, "on_volume_change.update_icon_and_vol_adj", value)

on_pl_pos_change(s, value) == idle_add(s, "on_pl_pos_change.update", FALSE)

\* No playlist dialog is open: the update is the recomputation.
on_pl_pos_change_update(s) == _update_playlist_nav_sensitivity(s)

on_pause_change(s, paused) ==
    idle_add(idle_add(s, "_sync_inhibit", FALSE), "_update_play_pause_icon", paused)

\* watch_eof seeks and pauses from the callback.
watch_eof(s, value) ==
    IF ~value THEN s
    ELSE IF s.mpv.core_shutdown THEN Raise(s)
    ELSE SetProperty(seek(s, 0), "pause", TRUE)

on_mute_change(s, value) == idle_add(s, "on_mute_change.update", value)

\* on_quit: the engine's shutdown event closes the window.
on_quit(s) == idle_add(s, "close", FALSE)

\* A teardown that leaves the inhibit request with the application.
close_request_keeps_inhibit(s) ==
    [s EXCEPT !.events = {},
              !.mpv.core_shutdown = TRUE,
              !.win.mpv_ctx = FALSE,
              !.win.closed = TRUE]

\* Closing the window (self.close()).  What the close tears down is not in
\* window.py; as the lifecycle is specified, the notification handlers are
\* unsubscribed, the inhibit request is released when one is held, and the
\* engine and the render context are shut down.
close_request(s) ==
    [s EXCEPT !.events = {},
              !.env.inhibits = IF s.win.inhibit_id # 0 THEN @ - 1 ELSE @,
              !.win.inhibit_id = 0,
              !.mpv.core_shutdown = TRUE,
              !.win.mpv_ctx = FALSE,
              !.win.closed = TRUE]

\* Chapters.  A chapter is modelled by its time offset; the scale's marks
\* are the set of the values add_mark was called with since the last
\* clear_marks.
ByTime(a, b) == a < b

_update_chapter_marks(s, chapters) ==
    LET a == Touch(s, "video_progress_scale")
    IN  IF chapters = <<>> THEN [a EXCEPT !.w.chapter_marks = {}]
        ELSE [a EXCEPT !.w.chapter_marks =
                           @ \cup {chapters[k] : k \in 1..Len(chapters)}]

on_chapters_change(s, value) ==
    idle_add([s EXCEPT !.win.current_chapters =
                           IF value # <<>> THEN SortSeq(value, ByTime) ELSE <<>>],
             "_update_chapter_marks", value)

\* The callback of a pending notification; a property's observer gets the
\* value the property has when the notification is delivered.
observer(s, e) ==
    CASE e.name = "shutdown" -> on_quit(s)
      [] e.name = "start-file" -> on_start_file(s)
      [] e.name = "file-loaded" -> on_files_loaded(s)
      [] e.name = "end-file" -> on_end_file(s, e.arg)
      [] e.name = "playlist_count" -> on_playlist_count_change(s, s.mpv.playlist_count)
      [] e.name = "loop_playlist" -> on_loop_playlist_change(s, s.mpv.loop_playlist)
      [] e.name = "loop_file" -> on_loop_file_change(s, s.mpv.loop_file)
      [] e.name = "fullscreen" -> on_fs_change(s, s.mpv.fullscreen)
      [] e.name = "time_pos" -> on_time_change(s, s.mpv.time_pos)
      [] e.name = "volume" -> on_volume_change(s, s.mpv.volume)
      [] e.name = "playlist_pos" -> on_pl_pos_change(s, s.mpv.playlist_pos)
      [] e.name = "pause" -> on_pause_change(s, s.mpv.pause)
      [] e.name = "eof_reached" -> watch_eof(s, s.mpv.eof_reached)
      [] e.name = "idle_active" -> on_idle_change(s, s.mpv.idle_active)
      [] e.name = "mute" -> on_mute_change(s, s.mpv.mute)
      [] e.name = "chapter_list" -> on_chapters_change(s, s.mpv.chapter_list)

\* The function a queued closure calls; newpos is the engine's answer to the
\* shuffle command of the closure _on_open_response queues.
closure(s, c, newpos) ==
    CASE c.fn = "close" -> close_request(s)
      [] c.fn = "on_track_change.set_val" ->
             on_track_change_set_val(s, c.arg[1], c.arg[2])
      [] c.fn = "spinner.set_visible" ->
             [Touch(s, "spinner") EXCEPT !.w.spinner = c.arg]
      [] c.fn = "_update_playlist_nav_sensitivity" ->
             _update_playlist_nav_sensitivity(s)
      [] c.fn = "playlist_loop_toggle_button.set_active" ->
             playlist_loop_toggle_button_set_active(s, c.arg)
      [] c.fn = "loop_file_toggle_button.set_active" ->
             loop_file_toggle_button_set_active(s, c.arg)
      [] c.fn = "on_fs_change.update" -> on_fs_change_update(s, c.arg)
      [] c.fn = "_update_progress" -> _update_progress(s, c.arg)
      [] c.fn = "on_volume_change.update_icon_and_vol_adj" ->
             update_icon_and_vol_adj(s, c.arg)
      [] c.fn = "on_pl_pos_change.update" -> on_pl_pos_change_update(s)
      [] c.fn = "_sync_inhibit" -> _sync_inhibit(s)
      [] c.fn = "_update_play_pause_icon" -> _update_play_pause_icon(s, c.arg)
      [] c.fn = "on_idle_change.update_state" ->
             on_idle_change_update_state(s, c.arg)
      [] c.fn = "on_mute_change.update" -> on_mute_change_update(s, c.arg)
      [] c.fn = "_on_shuffle_toggled" -> _on_shuffle_toggled(s, newpos)
      [] c.fn = "_update_chapter_marks" -> _update_chapter_marks(s, c.arg)

(***************************************************************************)
(* Picture adjustments: the actions of the window (window.py) and the      *)
(* buttons of the options popover (options.py)                             *)
(***************************************************************************)
\* self.mpv.show_text(text)
show_text(s) == Command(s, "show-text", <<>>)

\* A rotate-right that does not wrap.
_on_rotate_right_no_wrap(s) ==
    LET curr == s.mpv.video_rotate
        new_val == curr + 90
        a == Command(s, "set", <<"video-rotate", new_val>>)
    IN  IF s.mpv.core_shutdown THEN Raise(s)
        ELSE show_text([a EXCEPT !.mpv = EngineSet(@, "video-rotate", new_val)])

_on_rotate_right(s) ==
    LET curr == s.mpv.video_rotate
        new_val == (curr + 90) % 360
        a == Command(s, "set", <<"video-rotate", new_val>>)
    IN  IF s.mpv.core_shutdown THEN Raise(s)
        ELSE show_text([a EXCEPT !.mpv = EngineSet(@, "video-rotate", new_val)])

_on_rotate_left(s) ==
    LET curr == s.mpv.video_rotate
        new_val == (curr - 90) % 360
        a == Command(s, "set", <<"video-rotate", new_val>>)
    IN  IF s.mpv.core_shutdown THEN Raise(s)
        ELSE show_text([a EXCEPT !.mpv = EngineSet(@, "video-rotate", new_val)])

\* The rotate buttons of the options popover (options.py): the command is
\* sent asynchronously.  dir is 90 for _on_rotate_right, -90 for
\* _on_rotate_left.
OptionsMenuButton_on_rotate(s, dir) ==
    LET curr == or0(s.mpv.video_rotate)
    IN  IF s.mpv.core_shutdown THEN Raise(s)
        ELSE command_async(s, "set", <<"video-rotate", (curr + dir) % 360>>)

\* The engine's `vf remove @label` and `vf toggle @label:filter`, on the
\* labels of the filter chain.
EngineVf(m, op, arg) ==
    LET label == IF arg \in {"@hflip", "@hflip:hflip"} THEN "@hflip" ELSE "@vflip"
    IN  IF op = "toggle" /\ label \notin m.vf THEN [m EXCEPT !.vf = @ \cup {label}]
        ELSE [m EXCEPT !.vf = @ \ {label}]

\* The engine runs the asynchronous command that has waited longest.
RunPending(s) ==
    LET c == Head(s.mpv.pending)
    IN  IF c[1] = "vf"
        THEN [s EXCEPT !.mpv = EngineVf([@ EXCEPT !.pending = Tail(@)],
                                        c[2][1], c[2][2])]
        ELSE [s EXCEPT !.mpv = EngineSet([@ EXCEPT !.pending = Tail(@)],
                                         c[2][1], c[2][2])]

\* ASPECT_RATIOS (imported from the package's utils): the ordered list of
\* ratios the window cycles through, the first being "-1", the engine's
\* value for the original ratio.  A ratio is written as its place in the
\* list, as for the list of the popover.
ASPECT_RATIOS == [i \in 1..NumRatios |-> IF i = 1 THEN -1 ELSE i - 1]

\* An aspect-next that stops at the end of the list.
_on_aspect_next_no_wrap(s) ==
    LET index == IF s.win.aspect_index + 1 < Len(ASPECT_RATIOS)
                 THEN s.win.aspect_index + 1 ELSE s.win.aspect_index
        val == ASPECT_RATIOS[index + 1]
        a == [s EXCEPT !.win.aspect_index = index]
        b == Command(a, "set", <<"video-aspect-override", val>>)
    IN  IF s.mpv.core_shutdown THEN Raise(a)
        ELSE show_text([b EXCEPT
                           !.mpv = EngineSet(@, "video-aspect-override", val)])

_on_aspect_next(s) ==
    LET index == (s.win.aspect_index + 1) % Len(ASPECT_RATIOS)
        val == ASPECT_RATIOS[index + 1]
        a == [s EXCEPT !.win.aspect_index = index]
        b == Command(a, "set", <<"video-aspect-override", val>>)
    IN  IF s.mpv.core_shutdown THEN Raise(a)
        ELSE show_text([b EXCEPT
                           !.mpv = EngineSet(@, "video-aspect-override", val)])

_on_aspect_prev(s) ==
    LET index == (s.win.aspect_index - 1) % Len(ASPECT_RATIOS)
        val == ASPECT_RATIOS[index + 1]
        a == [s EXCEPT !.win.aspect_index = index]
        b == Command(a, "set", <<"video-aspect-override", val>>)
    IN  IF s.mpv.core_shutdown THEN Raise(a)
        ELSE show_text([b EXCEPT
                           !.mpv = EngineSet(@, "video-aspect-override", val)])

\* An aspect-reset that sends the original ratio and keeps the index.
_on_aspect_reset_keeps_index(s) ==
    LET b == Command(s, "set", <<"video-aspect-override", -1>>)
    IN  IF s.mpv.core_shutdown THEN Raise(s)
        ELSE show_text([b EXCEPT
                           !.mpv = EngineSet(@, "video-aspect-override", -1)])

_on_aspect_reset(s) ==
    LET a == [s EXCEPT !.win.aspect_index = 0]
        b == Command(a, "set", <<"video-aspect-override", -1>>)
    IN  IF s.mpv.core_shutdown THEN Raise(a)
        ELSE show_text([b EXCEPT
                           !.mpv = EngineSet(@, "video-aspect-override", -1)])

\* The properties the numeric adjustments change, and those whose range has
\* no end a step of the window reaches (the delays).
Adjusted == {Spins[k].prop : k \in 1..Len(Spins)}
Unbounded == {"sub-delay", "audio-delay"}

\* The value the reset action of a property sets.
Default(prop) == IF prop = "speed" THEN 10 ELSE 0

\* The engine's `add <property> <n>`: the sum, cut off at the end of the
\* property's range.  The range is taken MaxAdj steps to each side of the
\* default (the engine's ranges are longer: contrast -100..100, video-zoom
\* -20..20, speed 0.01..100).
EngineAdd(m, prop, n) ==
    LET v == m.opts[prop] + n
        lo == Default(prop) - MaxAdj
        hi == Default(prop) + MaxAdj
    IN  [m EXCEPT !.opts[prop] = IF prop \in Unbounded THEN v
                                 ELSE IF v > hi THEN hi
                                 ELSE IF v < lo THEN lo
                                 ELSE v]

\* _on_zoom_inc, _on_contrast_inc, ..., _on_sub_delay_up, _on_speed_inc: one
\* step of the property up, then the text with the value read back.
_on_inc(s, prop) ==
    LET a == Command(s, "add", <<prop, 1>>)
    IN  IF s.mpv.core_shutdown THEN Raise(s)
        ELSE show_text([a EXCEPT !.mpv = EngineAdd(@, prop, 1)])

\* A step down of two steps for the zoom.
_on_dec_zoom_twice(s, prop) ==
    LET n == IF prop = "video-zoom" THEN -2 ELSE -1
        a == Command(s, "add", <<prop, n>>)
    IN  IF s.mpv.core_shutdown THEN Raise(s)
        ELSE show_text([a EXCEPT !.mpv = EngineAdd(@, prop, n)])

\* _on_zoom_dec, ..., _on_sub_delay_down, _on_speed_dec: one step down.
_on_dec(s, prop) ==
    LET a == Command(s, "add", <<prop, -1>>)
    IN  IF s.mpv.core_shutdown THEN Raise(s)
        ELSE show_text([a EXCEPT !.mpv = EngineAdd(@, prop, -1)])

\* _on_zoom_reset, ..., _on_speed_reset.
_on_reset(s, prop) ==
    LET a == Command(s, "set", <<prop, Default(prop)>>)
    IN  IF s.mpv.core_shutdown THEN Raise(s)
        ELSE show_text([a EXCEPT !.mpv = EngineSet(@, prop, Default(prop))])

(***************************************************************************)
(* Persisted settings (src/src/preferences.py).  `settings` is the         *)
(* process-wide Gio.Settings object, kept in env.settings; the engine      *)
(* options it is copied to are mpv.cfg, and mpv.af holds the labels of the *)
(* audio filters.                                                          *)
(***************************************************************************)
\* The keys the window applies, each with the engine option it is written
\* to and the two values it takes here: the one the engine is constructed
\* with (or its built-in default) and another.
SettingKeys ==
    << [key |-> "subtitle-color", opt |-> "sub-color", vals |-> <<"#ebebeb", "#ffff00">>],
       [key |-> "subtitle-scale", opt |-> "sub-scale", vals |-> <<"1.0", "1.5">>],
       [key |-> "subtitle-font", opt |-> "sub-font",
        vals |-> <<"Adwaita Sans SemiBold", "Serif">>],
       [key |-> "subtitle-languages", opt |-> "slang", vals |-> <<"", "en">>],
       [key |-> "audio-languages", opt |-> "alang", vals |-> <<"", "en">>],
       [key |-> "save-video-position", opt |-> "save-position-on-quit",
        vals |-> <<"no", "yes">>],
       [key |-> "hwdec", opt |-> "hwdec", vals |-> <<"no", "yes">>],
       [key |-> "normalize-volume", opt |-> "af", vals |-> <<"no", "yes">>] >>

SettingNames == {SettingKeys[k].key : k \in 1..Len(SettingKeys)}

OptionOf(key) ==
    CHOOSE k \in 1..Len(SettingKeys) : SettingKeys[k].key = key

\* The keys whose value is copied to the engine option as it is.
CopiedKeys == SettingNames \ {"hwdec", "normalize-volume"}

\* Attribute lookup.  A CineWindow has the attributes its class and
\* __init__ give it, `mpv` among them; conf_hwdec is not set in window.py,
\* so whether the window has it depends on code that is not among the
\* sources (env.conf_hwdec).  On the binding's MPV object a name that is no
\* attribute of the class is read as the engine property of that name, and
\* the engine has no property `mpv` or `conf-hwdec`: AttributeError.
HasAttr(s, obj, name) ==
    IF obj = "CineWindow"
    THEN IF name = "conf_hwdec" THEN s.env.conf_hwdec ELSE name = "mpv"
    ELSE FALSE

\* player[option] = value
SetCfg(s, opt, value) == [Dispatch(s, opt) EXCEPT !.mpv.cfg[opt] = value]

\* The hwdec branch shared by sync_mpv_with_settings and _on_hwdec_changed.
apply_hwdec(s, window) ==
    IF s.env.settings["hwdec"] = "yes"
    THEN LET a == command_async(s, "vf", <<"remove", "@hflip">>)
             b == command_async(a, "vf", <<"remove", "@vflip">>)
         IN  IF HasAttr(s, window, "conf_hwdec")
             THEN SetCfg(b, "hwdec", "auto")
             ELSE Raise(b)
    ELSE SetCfg(s, "hwdec", "no")

\* player.command("af", "add", "@cine_loudnorm:...")
af_add(s) ==
    [Command(s, "af", <<"add", "@cine_loudnorm">>) EXCEPT
        !.mpv.af = @ \cup {"@cine_loudnorm"}]

\* player.command("af", "remove", "@cine_loudnorm")
af_remove(s) ==
    [Command(s, "af", <<"remove", "@cine_loudnorm">>) EXCEPT
        !.mpv.af = @ \ {"@cine_loudnorm"}]

RECURSIVE CopyAll(_, _)
CopyAll(s, k) ==
    IF k > Len(SettingKeys) THEN s
    ELSE IF SettingKeys[k].key \in CopiedKeys
    THEN CopyAll(SetCfg(s, SettingKeys[k].opt, s.env.settings[SettingKeys[k].key]),
                 k + 1)
    ELSE CopyAll(s, k + 1)

\* sync_mpv_with_settings(window): `player = window.mpv` comes first.
sync_mpv_with_settings(s, window) ==
    IF ~HasAttr(s, window, "mpv") THEN Raise(s)
    ELSE LET a == CopyAll(s, 1)
             b == apply_hwdec(a, window)
         IN  IF b.obs.escaped THEN b
             ELSE IF s.env.settings["normalize-volume"] = "yes"
             THEN af_add(b)
             ELSE b

\* CineWindow.__init__ ends with sync_mpv_with_settings(self.mpv): the
\* argument is the binding's MPV object.
init_sync(s) == sync_mpv_with_settings(s, "MPV")

\* Preferences.__init__: _setup_mpv_updates connects the change handlers.
Preferences_init(s) == [s EXCEPT !.env.prefs_connected = TRUE]

\* _disconnect_settings, on the dialog's `closed`.
_disconnect_settings(s) == [s EXCEPT !.env.prefs_connected = FALSE]

\* The handler _setup_mpv_updates connects to changed::<key>; self.win is
\* the window the dialog was opened from.
handlers(s, key) ==
    IF s.mpv.core_shutdown THEN Raise(s)
    ELSE IF key \in CopiedKeys
    THEN SetCfg(s, SettingKeys[OptionOf(key)].opt, s.env.settings[key])
    ELSE IF key = "hwdec" THEN apply_hwdec(s, "CineWindow")
    ELSE IF s.env.settings[key] = "yes" THEN af_add(s)
    ELSE af_remove(s)

\* A key of the settings takes another value: through a row of the dialog
\* bound to it, or from outside the window (another window's dialog, the
\* settings backend).  Gio.Settings emits changed::<key> to the handlers
\* connected at the time.
settings_set(s, key, value) ==
    LET a == [s EXCEPT !.env.settings[key] = value]
    IN  IF s.env.settings[key] = value THEN s
        ELSE IF s.env.prefs_connected THEN handlers(a, key)
        ELSE a

(***************************************************************************)
(* Scroll on the progress bar.  env.clock is time.time() in tenths of a    *)
(* second, counted from ScrollGap tenths before the window is constructed  *)
(* (last_seek_scroll_time starts at 0, long before any scroll).            *)
(***************************************************************************)
\* _on_progress_scroll that seeks back without the lower limit.
_on_progress_scroll_no_max(s, dy) ==
    LET current_time == s.env.clock
        time_pos == s.mpv.time_pos
        new_time == IF dy < 0 THEN time_pos + ScrollStep ELSE time_pos - ScrollStep
        a == Command(s, "time-pos", <<new_time>>)
        b == EngineChange(a, "time_pos", new_time)
    IN  IF current_time - s.win.last_seek_scroll_time < ScrollGap THEN s
        ELSE IF s.mpv.core_shutdown \/ s.mpv.idle_active THEN Raise(s)
        ELSE [b EXCEPT !.win.last_seek_scroll_time = current_time]

\* While no file is loaded time-pos is None and `time_pos + 10` raises
\* TypeError.  The write is recorded with its value; the engine seeks to the
\* position written.
_on_progress_scroll(s, dy) ==
    LET current_time == s.env.clock
        time_pos == s.mpv.time_pos
        new_time == IF dy < 0 THEN time_pos + ScrollStep ELSE time_pos - ScrollStep
        max == IF new_time > 0 THEN new_time ELSE 0
        a == Command(s, "time-pos", <<max>>)
        b == EngineChange(a, "time_pos", max)
    IN  IF current_time - s.win.last_seek_scroll_time < ScrollGap THEN s
        ELSE IF s.mpv.core_shutdown \/ s.mpv.idle_active THEN Raise(s)
        ELSE [b EXCEPT !.win.last_seek_scroll_time = current_time]

(***************************************************************************)
(* The reset buttons of the options popover (options.py)                   *)
(***************************************************************************)
_on_flip(s, filter) ==
    IF s.mpv.core_shutdown THEN Raise(s)
    ELSE command_async(s, "vf", <<"toggle", filter>>)

_on_flip_reset(s) ==
    IF s.mpv.core_shutdown THEN Raise(s)
    ELSE command_async(command_async(s, "vf", <<"remove", "@hflip">>),
                       "vf", <<"remove", "@vflip">>)

_on_rotate_reset(s) ==
    IF s.mpv.core_shutdown THEN Raise(s)
    ELSE command_async(s, "set", <<"video-rotate", 0>>)

\* Gtk.DropDown.set_selected notifies "selected" when the selection changes.
aspect_dropdown_set_selected(s, i) ==
    IF s.w.aspect_selected = i THEN s
    ELSE _on_aspect_changed([s EXCEPT !.w.aspect_selected = i])

RECURSIVE reset_spins(_, _)
reset_spins(s, k) ==
    IF k > Len(Spins) \/ s.obs.escaped THEN s
    ELSE reset_spins(spin_set_value(s, Spins[k], Spins[k].dflt), k + 1)

_on_reset_all_options(s) ==
    LET a == aspect_dropdown_set_selected(s, 0)
        b == _on_rotate_reset(a)
        c == _on_flip_reset(b)
    IN  IF s.mpv.core_shutdown THEN Raise(s)
        ELSE reset_spins(c, 1)

(***************************************************************************)
(* Scrolling over the volume slider                                        *)
(***************************************************************************)
\* What _on_mouse_scroll_volume writes to the volume property for a scroll
\* of dy: <<>> when it returns without a write, else the value.
volume_written(s, dy) ==
    LET volume == s.mpv.volume
        max_vol == VolumeMax
    IN  IF dy < 0
        THEN IF volume >= max_vol THEN <<>> ELSE <<volume + VolumeStep>>
        ELSE IF dy > 0
        THEN IF volume <= 0 THEN <<>> ELSE <<volume - VolumeStep>>
        ELSE <<>>

\* The engine's answer to a volume outside 0..volume_max is not fixed by
\* the binding: it stores the value, or limits it, or refuses the write, in
\* which case the binding raises.
_on_mouse_scroll_volume(s, dy, answer) ==
    LET wr == volume_written(s, dy)
        lim(v) == IF v < 0 THEN 0 ELSE IF v > VolumeMax THEN VolumeMax ELSE v
    IN  IF s.mpv.core_shutdown THEN Raise(s)
        ELSE IF wr = <<>> THEN s
        ELSE IF wr[1] \in 0..VolumeMax \/ answer = "stored"
        THEN SetProperty(s, "volume", wr[1])
        ELSE IF answer = "limited" THEN SetProperty(s, "volume", lim(wr[1]))
        ELSE Raise(Dispatch(s, "volume"))

(***************************************************************************)
(* Actions                                                                 *)
(***************************************************************************)
User == Cur("ui", "user")
Engine == Cur("mpv", "engine")

\* The binding's event thread hands a pending notification to its callback.
Notify ==
    \E e \in events :
        Commit(observer([Cur("mpv", e.name) EXCEPT !.events = @ \ {e}], e))

\* The UI thread runs the oldest idle closure.
RunIdle ==
    /\ idle # <<>>
    /\ \E newpos \in ShuffledPos(mpv.playlist_count) :
           LET c == Head(idle)
           IN  Commit(closure([Cur("ui", c.origin) EXCEPT !.idle = Tail(@)],
                              c, newpos))

\* One second passes; a timeout that is due fires before more time passes.
Tick ==
    /\ timers # {}
    /\ \A t \in timers : t.left > 0
    /\ Commit([Cur("ui", "clock") EXCEPT
                  !.timers = {[id |-> t.id, left |-> t.left - 1] : t \in timers}])

\* A due timeout calls _hide_ui, which returns None: the source is destroyed.
TimerFire ==
    \E t \in timers :
        /\ t.left = 0
        /\ Commit([_hide_ui(Cur("ui", "timer")) EXCEPT !.timers = @ \ {t}])

\* A timeout of the pause indicator hides it; timeouts added later may still
\* be pending.
PauseIndicatorTimeout ==
    \E more \in BOOLEAN :
        /\ env.indicator_timeout
        /\ Commit([Cur("ui", "timer") EXCEPT
                      !.w.pause_indicator_revealed = FALSE,
                      !.env.indicator_timeout = more])

InWindow == {"video", "header", "controls"}

MouseMotion ==
    \E xy \in Positions, r \in InWindow :
        /\ (xy = win.prev_motion_xy /\ env.pointer # "out") => r = env.pointer
        /\ Commit(_on_mouse_motion([User EXCEPT !.env.pointer = r], xy))

PointerLeave ==
    /\ env.pointer # "out"
    /\ Commit([User EXCEPT !.env.pointer = "out"])

Keys == {"Escape", "Tab", "space"}
ModStates == {{}}

\* The accelerators _setup_actions registers.
Bound(key_name, state) ==
    \/ state = {"ctrl"} /\ key_name \in {"i", "p", "o", "s", "a", "w", "question"}
    \/ state = {"ctrl", "shift"} /\ key_name = "o"
    \/ state = {} /\ key_name = "q"

KeyPressed ==
    \E key_name \in Keys, state \in ModStates :
        Commit(_on_key_pressed(User, key_name, state, Bound(key_name, state)))

MouseButtons == {"MBTN_LEFT"}

ClickPressed == \E b \in MouseButtons : Commit(_on_click_pressed(User, b))

ClickReleased == \E b \in MouseButtons : Commit(_on_click_released(User, b))

\* The accelerators of win.open-sub-menu and win.open-audio-menu.
OpenSubMenu ==
    /\ win.open_sub_menu_enabled /\ env.menu_active = "none"
    /\ Commit(_on_open_sub_menu(User))

OpenAudioMenu ==
    /\ win.open_audio_menu_enabled /\ env.menu_active = "none"
    /\ Commit(_on_open_audio_menu(User))

\* The user opens a menu button of the revealed chrome; the options button
\* syncs its popover (notify::active).
MenuOpenButton(b) ==
    /\ w.revealer_ui /\ env.menu_active = "none"
    /\ Commit(_on_active([User EXCEPT !.env.menu_active = b]))

MenuOpen == \E b \in MenuButtons : MenuOpenButton(b)

OptionsOpened == MenuOpenButton("options_menu_button")

MenuClose ==
    /\ env.menu_active # "none"
    /\ Commit(_on_popover_closed([User EXCEPT !.env.menu_active = "none"]))

\* The window system changes the toplevel's state (notify::state) and leaves
\* the fullscreen bit as it is (focus, maximised, tiled).
ToplevelNotify == Commit(_set_fs_state(Cur("ui", "toplevel")))

\* The engine starts or ends playback, or shuts down.
EngineIdle ==
    /\ ~mpv.core_shutdown
    /\ Commit(EngineChange(Engine, "idle_active", ~mpv.idle_active))

EngineShutdown ==
    /\ ~mpv.core_shutdown
    /\ Commit([Engine EXCEPT !.mpv.core_shutdown = TRUE])

\* --- playlist navigation
ShuffleClicked ==
    /\ w.shuffle_sensitive
    /\ \E newpos \in ShuffledPos(mpv.playlist_count) :
           Commit(_on_shuffle_toggled(
                      [User EXCEPT !.w.shuffle_active = ~w.shuffle_active], newpos))

LoopPlaylistClicked ==
    /\ w.loop_playlist_sensitive
    /\ Commit(_on_loop_playlist_toggled(
                  [User EXCEPT !.w.loop_playlist_active = ~w.loop_playlist_active]))

LoopFileClicked ==
    Commit(_on_loop_file_toggled(
               [User EXCEPT !.w.loop_file_active = ~w.loop_file_active]))

PreviousClicked ==
    /\ w.previous_sensitive
    /\ Commit(_on_previous_clicked(User))

NextClicked ==
    /\ w.next_sensitive
    /\ Commit(_on_next_clicked(User))

OpenModes == {"playlist-add", "clear-and-add"}

\* What the user chooses in the dialog: nothing (dismissed), one file, two
\* files in either order.
Selections == {<<>>, <<1>>, <<1, 2>>, <<2, 1>>}

\* The user chooses one or two files in the dialog, or dismisses it.
OpenResponse ==
    \E mode \in OpenModes, files \in Selections :
        /\ (IF mode = "playlist-add" THEN mpv.playlist_count ELSE 0) + Len(files)
               <= MaxCount
        /\ Commit(_on_open_response(User, mode, files))

\* The user chooses a folder in the folder dialog, or dismisses it.
OpenFolderResponse ==
    \E ok \in BOOLEAN : Commit(_on_open_folder_dialog_on_open(User, ok))

\* The list of files dragged over the window has been read, or the read
\* has failed.
DropEnterRead ==
    \E ok \in BOOLEAN, is_sub \in BOOLEAN : Commit(on_read_done(User, ok, is_sub))

\* The entry that plays ends and the engine goes on to the next one.
EngineNextEntry ==
    /\ ~mpv.core_shutdown /\ ~mpv.idle_active
    /\ mpv.playlist_pos < mpv.playlist_count - 1
    /\ Commit(EngineChange(Engine, "playlist_pos", mpv.playlist_pos + 1))

\* A key binding or a script of the engine sets a loop option.
LoopPlaylistValues == {"no", "inf", "force"}
LoopFileValues == {"no", "inf"}

EngineLoopPlaylist ==
    \E v \in LoopPlaylistValues \ {mpv.loop_playlist} :
        /\ ~mpv.core_shutdown
        /\ Commit(EngineChange(Engine, "loop_playlist", v))

EngineLoopFile ==
    \E v \in LoopFileValues \ {mpv.loop_file} :
        /\ ~mpv.core_shutdown
        /\ Commit(EngineChange(Engine, "loop_file", v))

\* --- volume, mute, options
VolumeScaleMoved ==
    \E v \in Volumes \ {w.volume_adj} :
        Commit(volume_value_changed([User EXCEPT !.w.volume_adj = v]))

MuteClicked ==
    Commit(_on_mute_toggled([User EXCEPT !.w.mute_active = ~w.mute_active]))

EngineVolume ==
    \E v \in Volumes \ {mpv.volume} :
        /\ ~mpv.core_shutdown
        /\ Commit(EngineChange(Engine, "volume", v))

EngineMute ==
    /\ ~mpv.core_shutdown
    /\ Commit(EngineChange(Engine, "mute", ~mpv.mute))

\* The user steps the zoom spin button of the open popover.
ZoomSpinStepped ==
    \E v \in SpinValues \ {w.spin["zoom_spin"]} :
        /\ env.menu_active = "options_menu_button"
        /\ Commit(spin_set_value(User, Spins[1], v))

\* A key binding of the engine changes the zoom.
EngineZoom ==
    \E v \in SpinValues \ {mpv.opts["video-zoom"]} :
        /\ ~mpv.core_shutdown
        /\ Commit([Engine EXCEPT !.mpv.opts["video-zoom"] = v])

PlayPauseClicked ==
    /\ ~mpv.idle_active
    /\ Commit(_on_play_pause_clicked(User))

\* The user opens one file in place of what plays.
FileOpened ==
    Commit(_on_open_response(User, "clear-and-add", <<1>>))

\* A second of the file plays.
EngineTime ==
    /\ ~mpv.core_shutdown /\ ~mpv.idle_active /\ ~mpv.pause
    /\ mpv.time_pos < MaxTime
    /\ Commit(EngineChange(Engine, "time_pos", mpv.time_pos + 1))

\* The last entry reaches its end and stays open (keep-open).
EngineEof ==
    /\ ~mpv.core_shutdown /\ ~mpv.idle_active /\ ~mpv.pause
    /\ mpv.time_pos = MaxTime /\ ~mpv.eof_reached
    /\ Commit(EngineChange(Engine, "eof_reached", TRUE))

EndReasons == {"eof", "error"}

\* The engine reports that the entry ended: it played to its end, or failed
\* to load.
EngineEndFile ==
    \E reason \in EndReasons :
        /\ ~mpv.core_shutdown /\ ~mpv.idle_active
        /\ Commit([Engine EXCEPT
                      !.events = @ \cup {[name |-> "end-file", arg |-> reason]}])

\* The engine reports that it starts loading an entry.
EngineStartFile ==
    /\ ~mpv.core_shutdown /\ ~mpv.idle_active
    /\ Commit([Engine EXCEPT
                  !.events = @ \cup {[name |-> "start-file", arg |-> ""]}])

\* Picture adjustments.

OptionsRotate == \E dir \in {90, -90} : Commit(OptionsMenuButton_on_rotate(User, dir))

EngineRunsPending ==
    /\ mpv.pending # <<>>
    /\ Commit(RunPending(Engine))

\* The user picks another entry of the popover's aspect dropdown.
AspectSelected ==
    \E i \in 0..(Len(AspectList) - 1) :
        /\ i # w.aspect_selected
        /\ Commit(_on_aspect_changed([User EXCEPT !.w.aspect_selected = i]))

\* The properties of s that are not at their defaults.
Off(s) == {p \in Adjusted : s.mpv.opts[p] # Default(p)}

\* A step of an adjustment is taken while it leaves at most MaxOff properties
\* away from their defaults, and a delay within MaxAdj steps of 0.
Within(s) ==
    /\ Cardinality(Off(s)) <= MaxOff
    /\ \A p \in Unbounded : s.mpv.opts[p] \in (-MaxAdj)..MaxAdj

AdjustInc ==
    \E prop \in Adjusted :
        /\ Within(_on_inc(User, prop))
        /\ Commit(_on_inc(User, prop))

AdjustDec ==
    \E prop \in Adjusted :
        /\ Within(_on_dec(User, prop))
        /\ Commit(_on_dec(User, prop))

AdjustReset == \E prop \in Adjusted : Commit(_on_reset(User, prop))

\* The action win.quit (q, Ctrl+W): the window is closed while it is open.
QuitAction ==
    /\ ~win.closed
    /\ Commit(close_request(User))

\* The engine quits by itself and reports it with its shutdown event.
EngineQuits ==
    /\ ~mpv.core_shutdown
    /\ Commit([Engine EXCEPT
                  !.mpv.core_shutdown = TRUE,
                  !.events = @ \cup {[name |-> "shutdown", arg |-> ""]}])

\* Settings.

\* A key of the settings is given its other value.
SettingChanged ==
    \E k \in 1..Len(SettingKeys), i \in 1..2 :
        /\ env.settings[SettingKeys[k].key] # SettingKeys[k].vals[i]
        /\ Commit(settings_set(User, SettingKeys[k].key, SettingKeys[k].vals[i]))

\* Drops.

\* The lists of one to MaxDrop dropped items.
Drops == UNION {[1..n -> DroppedItems] : n \in 1..MaxDrop}

\* Files are dropped on the window, or on the playlist dialog, which hands
\* them to the window's _on_drop.  A drop is a gesture of seconds: the
\* notifications and closures of the one before have run when the next is
\* made.
Drop ==
    /\ events = {} /\ idle = <<>>
    /\ \E files \in Drops, from_playlist \in BOOLEAN :
           LET t == _on_drop(User, files, from_playlist)
           IN  /\ t.mpv.playlist_count <= MaxCount
               /\ Commit(t)

\* Scrolls on the progress bar.

\* The file of this slice is MaxScroll scroll steps and a half long.
FileEnd == ScrollStep * MaxScroll + ScrollStep \div 2

\* A tenth of a second passes.
ClockTick ==
    /\ env.clock < 2 * ScrollGap + MaxScroll
    /\ Commit([Engine EXCEPT !.env.clock = @ + 1])

\* Half a scroll step of the file plays.
EnginePlays ==
    /\ ~mpv.core_shutdown /\ ~mpv.idle_active /\ ~mpv.pause
    /\ mpv.time_pos + ScrollStep \div 2 <= FileEnd
    /\ Commit(EngineChange(Engine, "time_pos", mpv.time_pos + ScrollStep \div 2))

\* The wheel is turned over the progress bar: up (dy < 0), down, or sideways
\* (dy = 0).  A seek past the end of the file is not taken here.
ProgressScroll ==
    \E dy \in {-1, 0, 1} :
        /\ _on_progress_scroll(User, dy).mpv.time_pos <= FileEnd
        /\ Commit(_on_progress_scroll(User, dy))

\* Fullscreen.  The user and the window system make MaxGestures gestures
\* between them; what follows a gesture is not counted.
Gesture(s) ==
    /\ env.gestures < MaxGestures
    /\ Commit([s EXCEPT !.env.gestures = env.gestures + 1])

FullscreenClicked == Gesture(fullscreen_button_clicked(User))

EscapePressed == Gesture(_on_key_pressed(User, "Escape", {}, FALSE))

\* The window system changes the toplevel's fullscreen state by itself (a
\* shortcut of the compositor).
ToplevelToggled ==
    Gesture(_set_fs_state([Cur("ui", "toplevel") EXCEPT
                              !.env.toplevel_fs = ~env.toplevel_fs]))

\* The toplevel's state changes in another bit (focus, tiling).
ToplevelOther == Gesture(_set_fs_state(Cur("ui", "toplevel")))

ToplevelAnswers ==
    /\ env.fs_requests # <<>>
    /\ Commit(toplevel_answer(Cur("ui", "toplevel")))

\* Keys.

\* Keys the window forwards: a letter, a digit, a key KEY_REMAP renames and
\* one it does not; and the modifier states.
ChordKeys == {"a", "1", "Return", "space"}
Modifiers == SUBSET {"ctrl", "alt", "shift"}

\* A key is pressed, alone or with shift held.
KeyChord ==
    \E key_name \in ChordKeys \cup {"Escape", "Tab", "q"}, state \in {{}, {"shift"}} :
        Commit(_on_key_pressed(User, key_name, state, Bound(key_name, state)))

\* The toggles.  The user's clicks on the mute and loop buttons and the
\* engine's own changes of the three properties (a script, a key binding)
\* are counted as gestures.
ToggleClicked ==
    \/ Gesture(_on_mute_toggled([User EXCEPT !.w.mute_active = ~w.mute_active]))
    \/ Gesture(_on_loop_file_toggled(
                   [User EXCEPT !.w.loop_file_active = ~w.loop_file_active]))
    \/ Gesture(_on_loop_playlist_toggled(
                   [User EXCEPT !.w.loop_playlist_active = ~w.loop_playlist_active]))

EngineToggles ==
    \/ Gesture(EngineChange(Engine, "mute", ~mpv.mute))
    \/ \E v \in LoopFileValues \ {mpv.loop_file} :
           Gesture(EngineChange(Engine, "loop_file", v))
    \/ \E v \in LoopPlaylistValues \ {mpv.loop_playlist} :
           Gesture(EngineChange(Engine, "loop_playlist", v))

\* The event thread and the main loop in the toggles' slice: the gestures
\* are counted, so the queues stay finite without a bound of their own.
ToggleNotify ==
    \E e \in events :
        Step(observer([Cur("mpv", e.name) EXCEPT !.events = @ \ {e}], e))

ToggleRunIdle ==
    /\ idle # <<>>
    /\ LET c == Head(idle)
       IN  Step(closure([Cur("ui", c.origin) EXCEPT !.idle = Tail(@)], c, -1))

\* Chapters.  The chapter lists of the files: none, one chapter, two in
\* order, two out of order.
ChapterLists == {<<>>, <<0>>, <<0, 2>>, <<3, 1>>}

\* The engine loads a file or switches the edition: the chapter list
\* changes.
EngineChapters ==
    \E l \in ChapterLists \ {mpv.chapter_list} :
        Commit(EngineChange(Engine, "chapter_list", l))

\* The options popover's buttons, pressed while it is open.
PopoverOpen == env.menu_active = "options_menu_button"

FlipClicked ==
    /\ PopoverOpen
    /\ \E filter \in {"@hflip:hflip", "@vflip:vflip"} : Commit(_on_flip(User, filter))

PopoverRotate == PopoverOpen /\ OptionsRotate

PopoverAspect == PopoverOpen /\ AspectSelected

ResetAllClicked == PopoverOpen /\ Commit(_on_reset_all_options(User))

\* Changes from outside the popover: a key binding of the engine changes
\* the zoom, a shortcut of the window steps the aspect ratio.
AspectShortcut == Commit(_on_aspect_next(User))

\* The volume slider: the user drags it to a value of its range or scrolls
\* over it, once the change before has reached the widgets.
SliderValues == {3, 100, VolumeMax - 2}

VolumeSlid ==
    \E v \in SliderValues \ {w.volume_adj} :
        /\ events = {} /\ idle = <<>>
        /\ Commit(volume_value_changed([User EXCEPT !.w.volume_adj = v]))

VolumeScrolled ==
    \E dy \in {-1, 1}, answer \in {"stored", "limited", "refused"} :
        /\ events = {} /\ idle = <<>>
        /\ Commit(_on_mouse_scroll_volume(User, dy, answer))

(***************************************************************************)
(* Initial states.  __init__ leaves an idle engine with its defaults and   *)
(* the widgets as the toolkit makes them (the layout resource is not among *)
(* the sources); the engine then sends every observer the value of its     *)
(* property once.  A specification starts with the notifications of its    *)
(* group pending and the others delivered and applied, and the window      *)
(* system has answered the request of the first fullscreen notification.   *)
(***************************************************************************)
InitMpv ==
    [idle_active |-> TRUE, pause |-> FALSE, fullscreen |-> FALSE,
     core_shutdown |-> FALSE,
     playlist_count |-> 0, playlist_pos |-> -1,
     loop_playlist |-> "no", loop_file |-> "no",
     volume |-> 100, mute |-> FALSE, time_pos |-> None, eof_reached |-> FALSE,
     opts |-> [p \in {Spins[k].prop : k \in 1..Len(Spins)} |->
                  IF p = "speed" THEN 10 ELSE 0],
     video_aspect_override |-> -1, hwdec_copy |-> FALSE,
     video_rotate |-> 0, pending |-> <<>>,
     cfg |-> [o \in {SettingKeys[k].opt : k \in 1..Len(SettingKeys)} \ {"af"} |->
                 SettingKeys[CHOOSE k \in 1..Len(SettingKeys) :
                                SettingKeys[k].opt = o].vals[1]],
     af |-> {}, chapter_list |-> <<>>, vf |-> {}]

InitW ==
    [revealer_ui |-> TRUE, cursor |-> "default", chapter_popover |-> FALSE,
     decoration_layout |-> "settings", fullscreen_icon |-> "view-fullscreen-symbolic",
     start_page |-> TRUE, controls_box |-> FALSE, gl_area |-> FALSE,
     title |-> "Cine",
     shuffle_active |-> FALSE, loop_playlist_active |-> FALSE,
     loop_file_active |-> FALSE,
     previous_sensitive |-> TRUE, next_sensitive |-> TRUE,
     shuffle_sensitive |-> TRUE, loop_playlist_sensitive |-> TRUE,
     volume_adj |-> 0, volume_blocked |-> FALSE,
     volume_icon |-> "audio-volume-high-symbolic", mute_active |-> FALSE,
     progress_adj |-> 0, progress_blocked |-> FALSE, progress_upper |-> MaxTime,
     time_elapsed_label |-> 0,
     play_pause_icon |-> "media-playback-start-symbolic",
     pause_indicator_icon |-> "media-playback-pause-symbolic",
     pause_indicator_revealed |-> FALSE,
     spinner |-> FALSE, toast |-> FALSE,
     spin |-> [b \in {Spins[k].spin : k \in 1..Len(Spins)} |->
                  IF b = "speed_spin" THEN 10 ELSE 0],
     aspect_selected |-> 0, flip_box |-> TRUE,
     drop_icon |-> "list-add-symbolic",
     action_state |-> [a \in {"select-subtitle", "select-audio"} |-> 0],
     chapter_marks |-> {}]

InitWin ==
    [prev_motion_xy |-> 0, hide_timeout_id |-> Unset, is_fullscreen |-> Unset,
     inhibit_id |-> 0, open_sub_menu_enabled |-> TRUE,
     open_audio_menu_enabled |-> TRUE,
     can_always_nav |-> FALSE, can_go_prev |-> FALSE, can_go_next |-> FALSE,
     aspect_index |-> 0, mpv_ctx |-> TRUE, closed |-> FALSE,
     last_seek_scroll_time |-> 0, current_chapters |-> <<>>]

InitEnv ==
    [pointer |-> "out", menu_active |-> "none", toplevel_fs |-> FALSE,
     dialogs |-> FALSE, inhibits |-> 0, indicator_timeout |-> FALSE,
     settings |-> [k \in SettingNames |->
                      IF k = "hwdec" THEN "yes"
                      ELSE SettingKeys[OptionOf(k)].vals[1]],
     prefs_connected |-> FALSE, conf_hwdec |-> FALSE, clock |-> ScrollGap,
     fs_requests |-> <<>>, gestures |-> 0]

Constructed ==
    [mpv |-> InitMpv, events |-> {}, idle |-> <<>>, timers |-> {},
     w |-> InitW, win |-> InitWin, env |-> InitEnv, obs |-> NoObs,
     thread |-> "ui", origin |-> "init"]

\* The closures of s.idle run in order.
RECURSIVE Drain(_)
Drain(s) ==
    IF s.idle = <<>> THEN s
    ELSE Drain(closure([s EXCEPT !.idle = Tail(@), !.thread = "ui",
                                 !.origin = Head(s.idle).origin],
                       Head(s.idle), s.mpv.playlist_pos))

\* The first notifications of the properties of props, delivered and applied.
RECURSIVE Delivered(_, _)
Delivered(s, props) ==
    IF props = {} THEN s
    ELSE LET p == CHOOSE q \in props : TRUE
             a == observer([s EXCEPT !.thread = "mpv", !.origin = p],
                           [name |-> p, arg |-> ""])
         IN  Delivered(Drain(a), props \ {p})

InitGroup(props) ==
    LET s == Delivered(Constructed, Observed \ props)
    IN  /\ mpv = s.mpv
        /\ events = {[name |-> p, arg |-> ""] : p \in props}
        /\ idle = <<>>
        /\ timers = s.timers
        /\ w = s.w
        /\ win = s.win
        /\ env = [s.env EXCEPT !.fs_requests = <<>>]

HideProps == {"idle_active"}
NavProps == {"playlist_count", "playlist_pos", "loop_playlist", "loop_file"}
BridgeProps == {"volume", "mute"}
EventsProps == {"time_pos", "pause", "eof_reached", "idle_active"}

InitHide == InitGroup(HideProps)

NextHide ==
    \/ Notify \/ RunIdle \/ Tick \/ TimerFire
    \/ MouseMotion \/ PointerLeave \/ KeyPressed \/ ClickPressed \/ ClickReleased
    \/ OpenSubMenu \/ OpenAudioMenu \/ MenuOpen \/ MenuClose
    \/ ToplevelNotify
    \/ EngineIdle \/ EngineShutdown

SpecHide == InitHide /\ [][NextHide]_vars

InitNav == InitGroup(NavProps)

NextNav ==
    \/ Notify \/ RunIdle
    \/ ShuffleClicked \/ LoopPlaylistClicked \/ LoopFileClicked
    \/ PreviousClicked \/ NextClicked \/ OpenResponse
    \/ EngineNextEntry \/ EngineLoopPlaylist \/ EngineLoopFile

SpecNav == InitNav /\ [][NextNav]_vars

InitBridge == InitGroup(BridgeProps)

NextBridge ==
    \/ Notify \/ RunIdle
    \/ VolumeScaleMoved \/ MuteClicked \/ EngineVolume \/ EngineMute
    \/ OptionsOpened \/ MenuClose \/ ZoomSpinStepped \/ EngineZoom

SpecBridge == InitBridge /\ [][NextBridge]_vars

InitEvents == InitGroup(EventsProps)

NextEvents ==
    \/ Notify \/ RunIdle \/ PauseIndicatorTimeout
    \/ FileOpened \/ PlayPauseClicked
    \/ EngineTime \/ EngineEof \/ EngineEndFile

SpecEvents == InitEvents /\ [][NextEvents]_vars

\* The slices below start with every first notification delivered and
\* applied, but for SpecOpen, which starts as SpecNav does, and SpecClose
\* and SpecLoad, which start as SpecEvents does.
NextPicture ==
    \/ Commit(_on_rotate_right(User))
    \/ Commit(_on_rotate_left(User))
    \/ OptionsRotate
    \/ EngineRunsPending
    \/ Commit(_on_aspect_next(User))
    \/ Commit(_on_aspect_prev(User))
    \/ Commit(_on_aspect_reset(User))
    \/ AspectSelected

SpecPicture == InitGroup({}) /\ [][NextPicture]_vars

NextAdjust == AdjustInc \/ AdjustDec \/ AdjustReset

SpecAdjust == InitGroup({}) /\ [][NextAdjust]_vars

NextOpen ==
    \/ Notify \/ RunIdle
    \/ OpenResponse \/ OpenFolderResponse \/ DropEnterRead

SpecOpen == InitNav /\ [][NextOpen]_vars

NextClose ==
    \/ Notify \/ RunIdle \/ PauseIndicatorTimeout
    \/ FileOpened \/ PlayPauseClicked \/ EngineEndFile
    \/ QuitAction \/ EngineQuits

SpecClose == InitEvents /\ [][NextClose]_vars

NextLoad ==
    \/ Notify \/ RunIdle
    \/ FileOpened \/ EngineStartFile \/ EngineEndFile

SpecLoad == InitEvents /\ [][NextLoad]_vars

\* The settings hold any values when the window is constructed; __init__
\* ends with init_sync.
InitSettings ==
    \E b \in [1..Len(SettingKeys) -> 1..2], ch \in BOOLEAN :
        LET st == [k \in SettingNames |->
                      SettingKeys[OptionOf(k)].vals[b[OptionOf(k)]]]
            c == [Constructed EXCEPT !.env.settings = st, !.env.conf_hwdec = ch]
            s == Delivered([init_sync(c) EXCEPT !.obs = NoObs], Observed)
        IN  /\ mpv = s.mpv
            /\ events = {}
            /\ idle = <<>>
            /\ timers = s.timers
            /\ w = s.w
            /\ win = s.win
            /\ env = [s.env EXCEPT !.fs_requests = <<>>]

NextSettings ==
    \/ (~env.prefs_connected /\ Commit(Preferences_init(User)))
    \/ (env.prefs_connected /\ Commit(_disconnect_settings(User)))
    \/ SettingChanged
    \/ EngineRunsPending

SpecSettings == InitSettings /\ [][NextSettings]_vars

\* Besides the drops: a key binding of the engine toggles pause, or, between
\* two drops, stops playback and clears the playlist.
NextDrop ==
    \/ Notify \/ RunIdle
    \/ Drop
    \/ (~mpv.idle_active /\ Commit(EngineChange(Engine, "pause", ~mpv.pause)))
    \/ (~mpv.idle_active /\ events = {} /\ idle = <<>> /\ Commit(stop(Engine)))

SpecDrop == InitGroup({}) /\ [][NextDrop]_vars

NextScroll ==
    \/ Notify \/ RunIdle
    \/ (mpv.idle_active /\ FileOpened)
    \/ ClockTick \/ EnginePlays \/ ProgressScroll

SpecScroll == InitGroup({}) /\ [][NextScroll]_vars

NextFs ==
    \/ Notify \/ RunIdle
    \/ FullscreenClicked \/ EscapePressed
    \/ ToplevelToggled \/ ToplevelOther \/ ToplevelAnswers

SpecFs == InitGroup({}) /\ [][NextFs]_vars

\* The binding's event thread, the main loop and the window system each
\* go on while they have something to do.
SpecFsFair ==
    /\ SpecFs
    /\ WF_vars(Notify) /\ WF_vars(RunIdle) /\ WF_vars(ToplevelAnswers)

\* The auto-hide while the window goes fullscreen and back: a file starts
\* to play, the pointer moves, the options menu opens and closes.
NextChrome ==
    \/ Notify \/ RunIdle \/ Tick \/ TimerFire
    \/ MouseMotion \/ PointerLeave \/ OptionsOpened \/ MenuClose
    \/ FullscreenClicked \/ ToplevelAnswers
    \/ (mpv.idle_active /\ EngineIdle)

SpecChrome == InitGroup({}) /\ [][NextChrome]_vars

\* Key presses while a file plays, the window goes fullscreen and back and
\* the chrome hides.
NextKeys ==
    \/ Notify \/ RunIdle \/ Tick \/ TimerFire
    \/ KeyChord
    \/ FullscreenClicked \/ ToplevelAnswers
    \/ (mpv.idle_active /\ EngineIdle)

SpecKeys == InitGroup({}) /\ [][NextKeys]_vars

\* The mute and loop toggles with their observers.

NextToggles == ToggleNotify \/ ToggleRunIdle \/ ToggleClicked \/ EngineToggles

SpecToggles == InitGroup({}) /\ [][NextToggles]_vars

\* The binding's event thread and the main loop each go on while they have
\* something to do.
SpecTogglesFair ==
    SpecToggles /\ WF_vars(ToggleNotify) /\ WF_vars(ToggleRunIdle)

\* The chapter list and the marks of the progress scale.
NextChapters == Notify \/ RunIdle \/ EngineChapters

SpecChapters == InitGroup({}) /\ [][NextChapters]_vars

\* The options popover with its reset button, and changes made beside it.
NextReset ==
    \/ OptionsOpened \/ MenuClose
    \/ ZoomSpinStepped \/ PopoverAspect \/ PopoverRotate \/ FlipClicked
    \/ ResetAllClicked
    \/ EngineZoom \/ AspectShortcut
    \/ EngineRunsPending

SpecReset == InitGroup({}) /\ [][NextReset]_vars

\* The volume slider dragged and scrolled over.
NextVolume == Notify \/ RunIdle \/ VolumeSlid \/ VolumeScrolled

SpecVolume == InitGroup({}) /\ [][NextVolume]_vars

\* The playlist filled from the dialogs and stepped through, with the
\* shuffle toggle.
NextPlaylist ==
    \/ Notify \/ RunIdle
    \/ OpenResponse \/ ShuffleClicked \/ PreviousClicked \/ NextClicked

SpecPlaylist == InitGroup({}) /\ [][NextPlaylist]_vars

(***************************************************************************)
(* Properties of the auto-hide state machine (SpecHide)                    *)
(***************************************************************************)
Held == win.hide_timeout_id \notin {Unset, None}

\* Exactly one timeout is pending in s, it is the one the window holds, and
\* it has the full period sec ahead of it.
Rearmed(s, sec) == s.timers = {[id |-> s.win.hide_timeout_id, left |-> sec]}

\* No interception condition holds: the engine plays, the pointer is neither
\* over the header bar nor over the controls, no menu popover is open.
NoInterception == ~active_or_hover(User)

\* C7: when the timeout expires with no interception condition true (and the
\* engine still running), the chrome is hidden and no hide callback remains
\* pending from that period; a pointer motion (a motion event at a position
\* other than the last one recorded) leaves the chrome revealed and exactly
\* one pending timeout, with the full period ahead of it.
C7_HideOnceMotionRestarts ==
    [][ /\ (Held /\ win'.hide_timeout_id = None
               /\ NoInterception /\ ~mpv.core_shutdown)
           => (~w'.revealer_ui /\ timers' = {})
        /\ (win'.prev_motion_xy # win.prev_motion_xy)
           => (w'.revealer_ui
               /\ timers' = {[id |-> win'.hide_timeout_id, left |-> HideDelay]})
      ]_vars

\* The chrome was hidden by an expired timeout after the pointer had moved.
C7_Witness ==
    /\ ~w.revealer_ui /\ timers = {} /\ win.hide_timeout_id = None
    /\ win.prev_motion_xy # 0 /\ ~mpv.idle_active /\ ~mpv.core_shutdown

\* C8: at most one auto-hide timeout is pending, and _hide_timeout_id names a
\* live timeout exactly when one is pending (so a re-arm removes the pending
\* one and never removes a timeout that has fired).
C8_OneTimer ==
    /\ Cardinality(timers) <= 1
    /\ Held <=> timers # {}
    /\ \A t \in timers : t.id = win.hide_timeout_id

\* A timeout armed while another was pending: the id after the first.
C8_Witness == \E t \in timers : t.id = 2 /\ win.hide_timeout_id = 2

C10_VisibleHasTimer ==
    (w.revealer_ui /\ ~mpv.idle_active /\ ~mpv.core_shutdown /\ NoInterception)
        => timers # {}

(***************************************************************************)
(* Properties of the playlist navigation (SpecNav)                         *)
(***************************************************************************)
Recomputed == _update_playlist_nav_sensitivity(Cur("ui", "playlist_pos"))

LoopOrShuffle == mpv.loop_playlist # "no" \/ w.shuffle_active

\* C1: whatever the playlist count, the position, the loop-playlist option
\* and the shuffle toggle are, the recomputation enables "previous" exactly
\* if (loop-playlist or shuffle is active and the playlist has more than one
\* entry) or the position is after the first entry, and "next" exactly if
\* (the same) or the position is before the last entry; while an entry of
\* the playlist is current that is the position not being the first (last)
\* entry.  With one entry both are disabled, with three entries, shuffle on
\* and position 0 both are enabled, and with no entry both are disabled.
C1_Enablement ==
    ~mpv.core_shutdown =>
        LET s == Recomputed
            count == mpv.playlist_count
            pos == mpv.playlist_pos
            always == LoopOrShuffle /\ count > 1
        IN  /\ s.w.previous_sensitive = (always \/ pos > 0)
            /\ s.w.next_sensitive = (always \/ pos < count - 1)
            /\ (pos \in 0..(count - 1)) =>
                   /\ s.w.previous_sensitive = (always \/ pos # 0)
                   /\ s.w.next_sensitive = (always \/ pos # count - 1)
            /\ s.win.can_go_prev = s.w.previous_sensitive
            /\ s.win.can_go_next = s.w.next_sensitive
            /\ count <= 1 => (~s.w.previous_sensitive /\ ~s.w.next_sensitive)
            /\ (count = 3 /\ w.shuffle_active /\ pos = 0)
                   => (s.w.previous_sensitive /\ s.w.next_sensitive)

\* Three entries, shuffle on, the first entry plays, no loop: the
\* recomputation has run and both buttons are enabled.
C1_Witness ==
    /\ mpv.playlist_count = 3 /\ mpv.playlist_pos = 0 /\ w.shuffle_active
    /\ mpv.loop_playlist = "no" /\ events = {} /\ idle = <<>>
    /\ w.previous_sensitive /\ w.next_sensitive /\ win.can_go_prev

\* C2: once no notification is pending and no closure is queued, the
\* navigation state and the sensitivity of the two buttons are the enablement
\* of the current count, position, loop-playlist option and shuffle toggle;
\* and recomputing twice gives what recomputing once gives.
C2_NavFresh ==
    /\ (events = {} /\ idle = <<>> /\ ~mpv.core_shutdown) =>
           /\ win.can_go_prev = Recomputed.win.can_go_prev
           /\ win.can_go_next = Recomputed.win.can_go_next
           /\ w.previous_sensitive = Recomputed.w.previous_sensitive
           /\ w.next_sensitive = Recomputed.w.next_sensitive
    /\ _update_playlist_nav_sensitivity(Recomputed) = Recomputed

(***************************************************************************)
(* Properties of the property bridge (SpecBridge)                          *)
(***************************************************************************)
LoopAvoidanceProps == {"volume", "time_pos", "mute", "loop_file", "loop_playlist"}

\* What the closure at the head of the idle queue writes to the engine.
HeadWrites ==
    closure([Cur("ui", Head(idle).origin) EXCEPT !.idle = Tail(@)],
            Head(idle), mpv.playlist_pos).obs.writeback

\* C3: the update a notification of volume, time-pos, mute, loop-file or
\* loop-playlist queued writes no property and sends no command when the UI
\* thread applies it.
C3_UpdateWritesNothing ==
    (idle # <<>> /\ Head(idle).origin \in LoopAvoidanceProps) => HeadWrites = {}

\* What the update of a mirrored property does when it is handed value.
Applied(prop) == Cur("ui", prop)

\* C4: applying a value the widget already shows writes nothing to the
\* engine: the volume update with the slider's value, the mute update with
\* the button's state, the loop updates with their buttons' states, the
\* progress update with the scale's value, and set_open_val with the value of
\* the spin button.
C4_EqualValueWritesNothing ==
    /\ update_icon_and_vol_adj(Applied("volume"), w.volume_adj).obs.writeback = {}
    /\ on_mute_change_update(Applied("mute"), w.mute_active).obs.writeback = {}
    /\ \A a \in BOOLEAN :
           /\ loop_file_toggle_button_set_active(
                  [Applied("loop_file") EXCEPT !.w.loop_file_active = a],
                  a).obs.writeback = {}
           /\ playlist_loop_toggle_button_set_active(
                  [Applied("loop_playlist") EXCEPT !.w.loop_playlist_active = a],
                  a).obs.writeback = {}
    /\ \A t \in Times :
           _update_progress([Applied("time_pos") EXCEPT !.w.progress_adj = t],
                            t).obs.writeback = {}
    /\ \A k \in 1..Len(Spins) :
           set_open_val(Applied("notify::active"), Spins[k],
                        w.spin[Spins[k].spin]).obs.writeback = {}
    /\ LET s == _on_active([Applied("notify::active") EXCEPT
                               !.env.menu_active = "options_menu_button"])
       IN  \A k \in 1..Len(Spins) :
               w.spin[Spins[k].spin] = open_val(Applied("notify::active"), Spins[k])
                   => <<"notify::active", Spins[k].prop>> \notin s.obs.writeback

\* The slider was moved to 50, the engine notified the change, and the update
\* with the value the slider shows is the next closure to run.
C4_Witness ==
    /\ idle # <<>>
    /\ Head(idle).fn = "on_volume_change.update_icon_and_vol_adj"
    /\ Head(idle).arg = w.volume_adj /\ w.volume_adj = 50

(***************************************************************************)
(* Properties of the callbacks (SpecEvents)                                *)
(***************************************************************************)
\* The callback of notification e, run on the event thread.
Called(e) == observer([Cur("mpv", e.name) EXCEPT !.events = @ \ {e}], e)

\* C5: the callback of a pending notification, which runs on the engine's
\* thread, touches no widget.
C5_CallbackTouchesNoWidget ==
    \A e \in events : Called(e).obs.offthread = {}

Notifications ==
    {[name |-> p, arg |-> ""] : p \in Observed}
        \cup {[name |-> "end-file", arg |-> r] : r \in EndReasons}

\* The writes the amended C6 lets the callback of e make.
ListedWrites(e) ==
    IF e.name = "eof_reached" /\ mpv.eof_reached
    THEN {<<"eof_reached", "seek">>, <<"eof_reached", "pause">>}
    ELSE IF e.name = "end-file" /\ e.arg = "error"
    THEN {<<"end-file", "stop">>}
    ELSE {}

\* The closures whose argument is a truth value, with the observed property
\* they are queued for.
BoolClosures ==
    {<<"spinner.set_visible", "end-file">>,
     <<"_update_playlist_nav_sensitivity", "playlist_count">>,
     <<"on_pl_pos_change.update", "playlist_pos">>,
     <<"on_fs_change.update", "fullscreen">>,
     <<"_sync_inhibit", "pause">>,
     <<"_update_play_pause_icon", "pause">>,
     <<"on_idle_change.update_state", "idle_active">>}

Run(fn, origin, arg) ==
    closure(Cur("ui", origin), [fn |-> fn, arg |-> arg, origin |-> origin],
            mpv.playlist_pos)

Rotations == {0, 90, 180, 270}

\* The quarter turn to the right of each rotation, and to the left.
RightOf == (0 :> 90) @@ (90 :> 180) @@ (180 :> 270) @@ (270 :> 0)
LeftOf == (0 :> 270) @@ (90 :> 0) @@ (180 :> 90) @@ (270 :> 180)

\* The value of the last `set video-rotate` a handler sent.
SentRotation(s) == s.obs.cmds[Len(s.obs.cmds)][2][2]

\* C11: rotation wraps modulo 360 in both directions.  The rotation is one
\* of 0, 90, 180, 270 in every state; from each of them the window's
\* rotate-right sets the next quarter turn (270 -> 0) and rotate-left the
\* previous one (0 -> 270), and the buttons of the options popover send the
\* same values.
C11_RotationWraps ==
    LET r == mpv.video_rotate
    IN  /\ r \in Rotations
        /\ _on_rotate_right(User).mpv.video_rotate = RightOf[r]
        /\ _on_rotate_left(User).mpv.video_rotate = LeftOf[r]
        /\ SentRotation(OptionsMenuButton_on_rotate(User, 90)) = RightOf[r]
        /\ SentRotation(OptionsMenuButton_on_rotate(User, -90)) = LeftOf[r]
        /\ (mpv.pending # <<>> /\ Head(mpv.pending)[2][1] = "video-rotate") =>
               RunPending(Engine).mpv.video_rotate = Head(mpv.pending)[2][2]

\* A rotate-left from 0 has set 270 and a rotate-right of the popover is
\* about to set 0.
C11_Witness ==
    /\ mpv.video_rotate = 270
    /\ mpv.pending = << <<"set", <<"video-rotate", 0>> >> >>

\* n presses of aspect-next, and of aspect-previous.
RECURSIVE AspectNextTimes(_, _)
AspectNextTimes(s, n) ==
    IF n = 0 THEN s ELSE AspectNextTimes(_on_aspect_next(s), n - 1)

RECURSIVE AspectPrevTimes(_, _)
AspectPrevTimes(s, n) ==
    IF n = 0 THEN s ELSE AspectPrevTimes(_on_aspect_prev(s), n - 1)

\* C12: aspect-ratio cycling is a closed loop.  From every index the cycle
\* reaches, as many presses of `next` as the list has entries lead back to
\* the index, and so do as many presses of `previous`; `next` followed by
\* `previous`, and `previous` followed by `next`, leave the index as it was.
\* The engine then holds the ratio the list has at the index.
C12_AspectLoop ==
    LET N == Len(ASPECT_RATIOS)
        i == win.aspect_index
        Back(s) == /\ s.win.aspect_index = i
                   /\ s.mpv.video_aspect_override = ASPECT_RATIOS[i + 1]
    IN  /\ i \in 0..(N - 1)
        /\ Back(AspectNextTimes(User, N))
        /\ Back(AspectPrevTimes(User, N))
        /\ Back(_on_aspect_prev(_on_aspect_next(User)))
        /\ Back(_on_aspect_next(_on_aspect_prev(User)))

\* The cycle has gone past the end of the list and stands on its last entry,
\* from where `next` leads to the first.
C12_Witness ==
    /\ win.aspect_index = Len(ASPECT_RATIOS) - 1
    /\ mpv.video_aspect_override = ASPECT_RATIOS[Len(ASPECT_RATIOS)]
    /\ _on_aspect_next(User).win.aspect_index = 0

(***************************************************************************)
(* Numeric adjustments (SpecAdjust)                                        *)
(***************************************************************************)
\* k steps up, and k steps down, of a property.
RECURSIVE IncTimes(_, _, _)
IncTimes(s, prop, k) ==
    IF k = 0 THEN s ELSE IncTimes(_on_inc(s, prop), prop, k - 1)

RECURSIVE DecTimes(_, _, _)
DecTimes(s, prop, k) ==
    IF k = 0 THEN s ELSE DecTimes(_on_dec(s, prop), prop, k - 1)

\* The engine's value of prop after k steps up and k steps down from the
\* current state.
RoundTrip(prop, k) == DecTimes(IncTimes(User, prop, k), prop, k).mpv.opts[prop]

\* k steps up from the current value stay within the property's range.
Fits(prop, k) ==
    prop \in Unbounded \/ mpv.opts[prop] + k <= Default(prop) + MaxAdj

InhibitSettled ==
    /\ \A e \in events : e.name \notin {"pause", "idle_active"}
    /\ \A k \in 1..Len(idle) :
           idle[k].fn \notin {"_sync_inhibit", "on_idle_change.update_state"}

\* C14: once every pause and idle-active notification has been applied, the
\* inhibit request is held exactly when playback is not paused and the
\* engine is not idle, and the application holds as many requests as the
\* window has cookies.
C14_InhibitWhilePlaying ==
    /\ InhibitSettled =>
           ((win.inhibit_id # 0) <=> (~mpv.pause /\ ~mpv.idle_active))
    /\ env.inhibits = IF win.inhibit_id # 0 THEN 1 ELSE 0

\* A file plays with the request held, the notifications all applied.
C14_Witness ==
    /\ InhibitSettled /\ win.inhibit_id # 0
    /\ ~mpv.pause /\ ~mpv.idle_active

\* What on_end_file does with an end-file event of the given reason in the
\* current state, and the state once the closures queued by then have run.
EndFile(reason) == on_end_file(Cur("mpv", "end-file"), reason)

Sent(s) == {s.obs.cmds[k][1] : k \in 1..Len(s.obs.cmds)}

\* C15: an end-file event with reason "error" adds a toast and commands the
\* engine to stop, which ends playback; an end-file event with another
\* reason adds no toast, sends no command and leaves the engine as it is.
\* Whatever the reason, the spinner is hidden once the closure the callback
\* queued has run.
C15_EndFile ==
    \A reason \in EndReasons :
        LET a == EndFile(reason)
        IN  /\ reason = "error" =>
                   /\ a.w.toast
                   /\ Sent(a) = {"stop"}
                   /\ a.mpv.idle_active /\ a.mpv.playlist_count = 0
            /\ reason # "error" =>
                   /\ a.w.toast = w.toast
                   /\ Sent(a) = {}
                   /\ a.mpv = mpv
            /\ a.idle # <<>>
            /\ a.idle[Len(a.idle)] =
                   [fn |-> "spinner.set_visible", arg |-> FALSE,
                    origin |-> "end-file"]
            /\ ~Drain(a).w.spinner

\* The spinner shows, no toast has been added yet, and the engine has
\* reported an error for the entry that is loading.
C15_Witness ==
    /\ w.spinner /\ ~w.toast /\ ~mpv.idle_active
    /\ [name |-> "end-file", arg |-> "error"] \in events

(***************************************************************************)
(* Shutdown of the engine (SpecHide)                                       *)
(***************************************************************************)
\* C16: once the core has shut down, no call into the engine lets an
\* exception leave a handler of the UI thread: not the timeout's _hide_ui,
\* not _set_fs_state, not _sync_inhibit, and not the closure that is next in
\* the idle queue.
C16_NoExceptionEscapes ==
    mpv.core_shutdown =>
        /\ ~_hide_ui(Cur("ui", "timer")).obs.escaped
        /\ ~_set_fs_state(User).obs.escaped
        /\ ~_sync_inhibit(Cur("ui", "pause")).obs.escaped
        /\ idle # <<>> =>
               ~closure([Cur("ui", Head(idle).origin) EXCEPT !.idle = Tail(@)],
                        Head(idle), mpv.playlist_pos).obs.escaped

(***************************************************************************)
(* File and folder dialogs, drops (SpecOpen)                               *)
(***************************************************************************)
\* The completion callbacks of a file or folder dialog that failed or was
\* dismissed, and of a dropped list of files that could not be read.
FailedDialogs ==
    {_on_open_response(User, mode, <<>>) : mode \in OpenModes}
        \cup {_on_open_folder_dialog_on_open(User, FALSE)}

FailedDrops == {on_read_done(User, FALSE, is_sub) : is_sub \in BOOLEAN}

\* C17 as stated: a selection that fails or is cancelled is surfaced as a
\* toast, sends the engine no command and leaves the playlist unchanged.
C17_FailureToasts ==
    \A a \in FailedDialogs \cup FailedDrops :
        /\ a.w.toast
        /\ a.obs.cmds = <<>> /\ a.mpv = mpv /\ ~a.obs.escaped

\* C17: a file or folder dialog that fails or is cancelled changes nothing:
\* no toast, no widget, no engine command, the engine and its playlist as
\* they were, nothing queued, and no exception leaves the callback.  A
\* dropped list of files that cannot be read adds a toast and hides the
\* spinner, and likewise sends no command and leaves the engine as it was.
C17_FailureIgnored ==
    /\ \A a \in FailedDialogs :
           /\ a.w = w /\ a.idle = idle /\ a.events = events
           /\ a.obs.cmds = <<>> /\ a.mpv = mpv /\ ~a.obs.escaped
    /\ \A a \in FailedDrops :
           /\ a.w.toast /\ ~a.w.spinner
           /\ a.idle = idle /\ a.events = events
           /\ a.obs.cmds = <<>> /\ a.mpv = mpv /\ ~a.obs.escaped

\* A full playlist plays, no toast has been shown, and a dialog is dismissed.
C17_Witness ==
    /\ mpv.playlist_count = MaxCount /\ ~mpv.idle_active /\ ~w.toast
    /\ _on_open_response(User, "clear-and-add", <<>>).mpv.playlist_count = MaxCount

C19_FireAndForget ==
    /\ OptionsMenuButton_on_rotate(User, 90).obs.waited = {}
    /\ _on_inc(User, "video-zoom").obs.waited = {}
    /\ _on_shuffle_toggled(User, mpv.playlist_pos).obs.waited = {}
    /\ _on_rotate_right(User).obs.waited = {}

\* The values a track id notification carries: track numbers and the words
\* the engine has for no track and for its own choice.
TrackValues ==
    {[int |-> TRUE, n |-> 1], [int |-> TRUE, n |-> 2],
     [int |-> FALSE, n |-> -1]}

\* The state of the select action once a notification of the track id has
\* been applied.
SelectState(action, value) ==
    Drain(on_track_change([Cur("mpv", "sid") EXCEPT !.idle = <<>>],
                          action, value)).w.action_state[action]

\* C20: a none value is mirrored as the default.  Once the notifications
\* have been applied, the progress adjustment is 0 when the engine has no
\* time position; a track id that is not an integer sets the state of its
\* select action to 0, and a track number sets it to the number.
C20_NoneCoerced ==
    /\ (events = {} /\ idle = <<>> /\ mpv.idle_active /\ mpv.time_pos = None) =>
           w.progress_adj = 0
    /\ \A action \in {"select-subtitle", "select-audio"} :
           \A value \in TrackValues :
               SelectState(action, value) = IF value.int THEN value.n ELSE 0

(***************************************************************************)
(* Settings (SpecSettings)                                                 *)
(***************************************************************************)
\* The engine option of key k holds what the settings hold.
SettingApplied(k) ==
    LET key == SettingKeys[k].key
        val == env.settings[key]
    IN  IF key = "normalize-volume"
        THEN ("@cine_loudnorm" \in mpv.af) <=> (val = "yes")
        ELSE IF key = "hwdec"
        THEN (mpv.cfg["hwdec"] = "no") <=> (val = "no")
        ELSE mpv.cfg[SettingKeys[k].opt] = val

\* C21: after the window is constructed and after any sequence of settings
\* changes, every engine option the settings cover holds the value of the
\* settings, and the filter @cine_loudnorm is present exactly when
\* normalize-volume is enabled.
C21_SettingsApplied == \A k \in 1..Len(SettingKeys) : SettingApplied(k)

(***************************************************************************)
(* Start page and video surface (SpecHide)                                 *)
(***************************************************************************)
\* No idle-active notification is pending and no update_state is queued.
IdleSettled ==
    /\ \A e \in events : e.name # "idle_active"
    /\ \A i \in 1..Len(idle) : idle[i].fn # "on_idle_change.update_state"

\* The start page is shown and the video surface, the controls box and the
\* two menu actions are off, or the other way round.
Shows(t, is_idle) ==
    /\ t.w.start_page = is_idle
    /\ t.w.gl_area = ~is_idle
    /\ t.w.controls_box = ~is_idle
    /\ t.win.open_sub_menu_enabled = ~is_idle
    /\ t.win.open_audio_menu_enabled = ~is_idle

\* C22: once an idle-active notification has been applied exactly one of
\* start page and video surface is visible: the start page iff the engine
\* is idle, the video surface and the controls box iff it is not, and the
\* actions open-sub-menu and open-audio-menu are enabled iff it is not; on
\* becoming idle the chrome is revealed and the title is "Cine".
C22_StartPageOrVideo ==
    /\ \A is_idle \in BOOLEAN :
           LET t == on_idle_change_update_state(Cur("ui", "idle_active"), is_idle)
           IN  /\ Shows(t, is_idle)
               /\ t.w.start_page # t.w.gl_area
               /\ is_idle => t.w.revealer_ui /\ t.w.title = "Cine"
    /\ IdleSettled =>
           Shows([w |-> w, win |-> win], mpv.idle_active)

\* A file plays, the notification has been applied and the chrome has been
\* hidden since: the video surface is shown, and update_state for the engine
\* becoming idle reveals the chrome.
C22_Witness ==
    /\ IdleSettled
    /\ ~mpv.idle_active
    /\ w.gl_area /\ ~w.start_page
    /\ ~w.revealer_ui
    /\ on_idle_change_update_state(Cur("ui", "idle_active"), TRUE).w.revealer_ui

(***************************************************************************)
(* Drag and drop (SpecDrop)                                                *)
(***************************************************************************)
\* The number of commands called name among cmds.
Count(cmds, name) == Cardinality({i \in 1..Len(cmds) : cmds[i][1] = name})

\* The items of files that the claim has appended to the playlist, and
\* those it has added as subtitle tracks when a file plays.
Appended(files) ==
    {k \in 1..Len(files) :
        files[k].dir \/ (~files[k].sub_ext /\ files[k].media)}

Subtitles(files) == {k \in 1..Len(files) : ~files[k].dir /\ files[k].sub_ext}

\* C23: of the dropped items a directory is appended to the playlist; a file
\* with a subtitle extension is added as a selected subtitle track only if a
\* file plays and the drop did not come from the playlist dialog, and is
\* never appended; a file whose type is video/, audio/ or image/ is
\* appended; anything else causes no engine command.  When the playlist was
\* empty before the drop and is not afterwards, pause is set to false.
C23_DropClassification ==
    ~mpv.core_shutdown =>
        \A files \in Drops, from_playlist \in BOOLEAN :
            LET t == _on_drop(User, files, from_playlist)
                cmds == t.obs.cmds
                added == Cardinality(Appended(files))
                subs == IF ~mpv.idle_active /\ ~from_playlist
                        THEN Cardinality(Subtitles(files)) ELSE 0
            IN  /\ Count(cmds, "loadfile") = added
                /\ t.mpv.playlist_count = mpv.playlist_count + added
                /\ Count(cmds, "sub-add") = subs
                /\ Len(cmds) = added + subs
                /\ (mpv.playlist_count = 0 /\ t.mpv.playlist_count > 0) =>
                       ~t.mpv.pause

\* A drop on the empty, paused player has started playback (its shuffle
\* refresh is still queued), and a subtitle file dropped now with a folder
\* is added as a track while the folder is appended.
C23_Witness ==
    /\ idle # <<>> /\ Head(idle).fn = "_on_shuffle_toggled"
    /\ mpv.playlist_count = 1 /\ ~mpv.idle_active /\ ~mpv.pause
    /\ LET files == <<[dir |-> FALSE, sub_ext |-> TRUE, media |-> FALSE],
                      [dir |-> TRUE, sub_ext |-> TRUE, media |-> FALSE]>>
       IN  _on_drop(User, files, FALSE).obs.cmds =
               <<  <<"sub-add", <<"select">> >>, <<"loadfile", <<"append-play">> >> >>

(***************************************************************************)
(* Interception of the auto-hide (SpecChrome)                              *)
(***************************************************************************)
\* The engine is idle, the pointer is over the header bar or the controls
\* box, or the popover of one of the six menu buttons is open.
Intercepted ==
    \/ mpv.idle_active
    \/ env.pointer \in {"header", "controls"}
    \/ env.menu_active \in
           {"primary_menu_button", "open_menu_button", "options_menu_button",
            "volume_menu_button", "subtitles_menu_button",
            "audio_tracks_menu_button"}

\* C24: the auto-hide callback never hides the chrome while an interception
\* condition holds when it runs: it leaves the revealer and the cursor as
\* they are.
C24_InterceptionKeepsChrome ==
    Intercepted =>
        LET t == _hide_ui(Cur("ui", "timer"))
        IN  /\ t.w.revealer_ui = w.revealer_ui
            /\ t.w.cursor = w.cursor

\* The hide timeout is due while a file plays in fullscreen and a menu is
\* open with the chrome shown: the callback leaves the chrome shown.
C24_Witness ==
    /\ \E t \in timers : t.id = win.hide_timeout_id /\ t.left = 0
    /\ ~mpv.idle_active /\ ~mpv.core_shutdown
    /\ env.menu_active = "options_menu_button"
    /\ env.pointer = "out"
    /\ w.revealer_ui
    /\ win.is_fullscreen = 1
    /\ _hide_ui(Cur("ui", "timer")).w.revealer_ui

(***************************************************************************)
(* Aspect-ratio state (SpecPicture)                                        *)
(***************************************************************************)
\* The values the handler that led to t wrote to video-aspect-override.
WrittenAspect(t) ==
    {t.obs.cmds[i][2][2] :
        i \in {j \in 1..Len(t.obs.cmds) :
                  /\ t.obs.cmds[j][1] = "set"
                  /\ t.obs.cmds[j][2][1] = "video-aspect-override"}}

\* In t the index is one of the list and the handler that led to t wrote
\* the list's ratio at the index, which the engine holds.
AspectConsistent(t) ==
    /\ t.win.aspect_index \in 0..(Len(ASPECT_RATIOS) - 1)
    /\ WrittenAspect(t) = {ASPECT_RATIOS[t.win.aspect_index + 1]}
    /\ t.mpv.video_aspect_override = ASPECT_RATIOS[t.win.aspect_index + 1]

WrittenTimes(t) ==
    {t.obs.cmds[i][2][1] :
        i \in {j \in 1..Len(t.obs.cmds) : t.obs.cmds[j][1] = "time-pos"}}

\* C26: a scroll that arrives less than 0.2 s after the last accepted one
\* issues no seek and leaves the time of the last scroll as it is; an
\* accepted scroll writes the current position plus 10 s (up) or minus 10 s
\* (down) to time-pos, and never a value below 0.
C26_ScrollThrottledAndClamped ==
    \A dy \in {-1, 1} :
        LET t == _on_progress_scroll(User, dy)
            pos == mpv.time_pos
        IN  /\ \A v \in WrittenTimes(t) : v >= 0
            /\ (env.clock - win.last_seek_scroll_time < ScrollGap) =>
                   /\ t.obs.cmds = <<>>
                   /\ t.mpv = mpv
                   /\ t.win.last_seek_scroll_time = win.last_seek_scroll_time
            /\ (/\ env.clock - win.last_seek_scroll_time >= ScrollGap
                /\ ~mpv.idle_active /\ ~mpv.core_shutdown) =>
                   /\ WrittenTimes(t) =
                          {IF dy < 0 THEN pos + ScrollStep
                           ELSE IF pos >= ScrollStep THEN pos - ScrollStep
                           ELSE 0}
                   /\ Len(t.obs.cmds) = 1
                   /\ t.win.last_seek_scroll_time = env.clock

\* A scroll up from the start of the file was accepted a tenth of a second
\* ago; the next one is dropped.
C26_Witness ==
    /\ win.last_seek_scroll_time > 0
    /\ env.clock - win.last_seek_scroll_time = 1
    /\ mpv.time_pos = ScrollStep
    /\ ~mpv.idle_active
    /\ _on_progress_scroll(User, 1).obs.cmds = <<>>
    /\ _on_progress_scroll(User, 1).mpv.time_pos = ScrollStep

(***************************************************************************)
(* Fullscreen (SpecFs, SpecFsFair)                                         *)
(***************************************************************************)
\* Nothing of a fullscreen change is under way: no notification pending,
\* no update queued, no request with the window system.
FsQuiet ==
    /\ \A e \in events : e.name # "fullscreen"
    /\ \A i \in 1..Len(idle) : idle[i].fn # "on_fs_change.update"
    /\ env.fs_requests = <<>>

\* The engine's property, the window's mirror and the toplevel agree.
FsAgree ==
    /\ mpv.fullscreen = env.toplevel_fs
    /\ (win.is_fullscreen = 1) = env.toplevel_fs

\* C30: after any finite sequence of clicks on the fullscreen button, Escape
\* presses and fullscreen changes of the window system, the pending
\* callbacks are processed at some time, and from then on the engine's
\* fullscreen property, is_fullscreen and the toplevel's state agree and no
\* fullscreen write follows.
C30_FullscreenConverges == <>[](FsQuiet /\ FsAgree)

(***************************************************************************)
(* Key chords (SpecKeys)                                                   *)
(***************************************************************************)
\* The chord of a key press as the specification words it: the held
\* modifiers among ctrl, alt and shift in that order, shift left out for a
\* single letter, then the remapped key, upper-cased when shift is held on
\* a single letter.
ChordOrder == <<"ctrl", "alt", "shift">>

Canonical(key_name, state) ==
    LET name == KEY_REMAP(key_name)
        held(m) == m \in state /\ ~(m = "shift" /\ name \in Letters)
    IN  SelectSeq(ChordOrder, held)
        \o <<IF "shift" \in state /\ name \in Letters THEN Upper(name) ELSE name>>

\* C27: with a live engine, a key other than Escape and Tab that no
\* accelerator is bound to sends exactly one keypress command with the
\* canonical chord and changes nothing else; Escape only sets fullscreen to
\* false; Tab only reveals the chrome and restarts the hide timer at 3
\* seconds; a key an accelerator is bound to sends nothing.
C27_KeyChord ==
    ~mpv.core_shutdown =>
        \A key_name \in ChordKeys \cup {"Escape", "Tab"}, state \in Modifiers,
           bound \in BOOLEAN :
            LET t == _on_key_pressed(User, key_name, state, bound)
            IN  CASE key_name = "Escape" ->
                       /\ t.mpv = [mpv EXCEPT !.fullscreen = FALSE]
                       /\ t.obs.cmds = <<>>
                       /\ t.w = w /\ t.timers = timers /\ t.win = win
                  [] key_name = "Tab" ->
                       /\ t.w = [w EXCEPT !.revealer_ui = TRUE]
                       /\ Rearmed(t, TabHideDelay)
                       /\ t.obs.cmds = <<>>
                       /\ t.mpv = mpv
                  [] OTHER ->
                       /\ t.obs.cmds = IF bound THEN <<>>
                                       ELSE <<<<"keypress",
                                               Canonical(key_name, state)>>>>
                       /\ t.mpv = mpv
                       /\ t.w = w /\ t.timers = timers /\ t.win = win

\* The window is fullscreen and the chrome hidden with no hide timer left:
\* Escape, Tab and a chord with all three modifiers each do their part.
C27_Witness ==
    /\ ~mpv.core_shutdown /\ mpv.fullscreen /\ ~w.revealer_ui /\ timers = {}
    /\ ~_on_key_pressed(User, "Escape", {}, FALSE).mpv.fullscreen
    /\ _on_key_pressed(User, "Tab", {}, FALSE).w.revealer_ui
    /\ _on_key_pressed(User, "a", {"ctrl", "alt", "shift"}, FALSE).obs.cmds
           = <<<<"keypress", <<"ctrl", "alt", "A">>>>>>
    /\ _on_key_pressed(User, "Return", {"shift", "alt"}, FALSE).obs.cmds
           = <<<<"keypress", <<"alt", "shift", "ENTER">>>>>>

(***************************************************************************)
(* The loop toggles (SpecNav)                                              *)
(***************************************************************************)
\* The user activates the loop-playlist button, the loop-file button.
ActivateLoopPlaylist ==
    _on_loop_playlist_toggled([User EXCEPT !.w.loop_playlist_active = TRUE])

ActivateLoopFile ==
    _on_loop_file_toggled([User EXCEPT !.w.loop_file_active = TRUE])

\* C28: with a live engine, after any user toggles and engine changes of
\* loop-file and loop-playlist the two loop buttons are never both active
\* once a toggled handler has returned, and a user's activation of one
\* leaves the engine's other loop mode at "no" and its own at "inf".
C28_LoopTogglesExclusive ==
    ~mpv.core_shutdown =>
        /\ ~(w.loop_playlist_active /\ w.loop_file_active)
        /\ ~w.loop_playlist_active =>
               /\ ActivateLoopPlaylist.mpv.loop_file = "no"
               /\ ActivateLoopPlaylist.mpv.loop_playlist = "inf"
               /\ ~ActivateLoopPlaylist.w.loop_file_active
        /\ ~w.loop_file_active =>
               /\ ActivateLoopFile.mpv.loop_playlist = "no"
               /\ ActivateLoopFile.mpv.loop_file = "inf"
               /\ ~ActivateLoopFile.w.loop_playlist_active

\* The loop-file button is active, the engine loops the file, and the user
\* activates the loop-playlist button: the loop-file button is released.
C28_Witness ==
    /\ w.loop_file_active /\ mpv.loop_file = "inf" /\ ~w.loop_playlist_active
    /\ w.loop_playlist_sensitive /\ ~mpv.core_shutdown
    /\ ActivateLoopPlaylist.w.loop_playlist_active
    /\ ~ActivateLoopPlaylist.w.loop_file_active
    /\ ActivateLoopPlaylist.mpv.loop_file = "no"

(***************************************************************************)
(* Toggles and their mirrors (SpecTogglesFair)                             *)
(***************************************************************************)
\* No notification of the three properties is pending and no callback is
\* queued.
TogglesQuiet == events = {} /\ idle = <<>>

\* Each toggle button shows the engine's property.
TogglesAgree ==
    /\ w.mute_active = mpv.mute
    /\ w.loop_file_active = (mpv.loop_file = "inf")
    /\ w.loop_playlist_active = (mpv.loop_playlist = "inf")

\* C29: after any finite sequence of user toggles and engine changes of
\* mute, loop-file and loop-playlist, the chain of observers, widget updates,
\* toggled handlers and engine writes comes to an end, and from then on each
\* toggle button is active iff the engine's property is true or "inf".
C29_TogglesConverge == <>[](TogglesQuiet /\ TogglesAgree)

(***************************************************************************)
(* Pairing of the inhibit requests (SpecEvents)                            *)
(***************************************************************************)
\* The window's cookie and the application's outstanding requests pair up.
Paired ==
    /\ env.inhibits \in {0, 1}
    /\ (win.inhibit_id # 0) <=> (env.inhibits = 1)

\* C31: under any interleaving of pause and idle-active notifications the
\* cookie is nonzero exactly when one request is outstanding, a request is
\* made only while none is held and a release only while one is: requests
\* and releases alternate, a request first.
C31_InhibitPaired ==
    [][/\ Paired /\ Paired'
       /\ (env.inhibits' > env.inhibits) => (win.inhibit_id = 0)
       /\ (env.inhibits' < env.inhibits) => (win.inhibit_id # 0)]_vars

\* A request is held, playback goes on, and a further _sync_inhibit is the
\* next closure to run.
C31_Witness ==
    /\ win.inhibit_id # 0 /\ ~mpv.pause /\ ~mpv.idle_active
    /\ ~mpv.core_shutdown
    /\ idle # <<>> /\ Head(idle).fn = "_sync_inhibit"

(***************************************************************************)
(* Chapter marks (SpecChapters)                                            *)
(***************************************************************************)
\* The newest chapter list has been applied: no chapter-list notification
\* is pending and no _update_chapter_marks is queued.
ChaptersApplied ==
    /\ \A e \in events : e.name # "chapter_list"
    /\ \A k \in 1..Len(idle) : idle[k].fn # "_update_chapter_marks"

Offsets(chapters) == {chapters[k] : k \in 1..Len(chapters)}

\* C32: once a chapter-list notification has been applied, the marks on the
\* progress scale are exactly the time offsets of the newest chapter list
\* (none for an empty list, none left of an earlier file), and
\* current_chapters is that list sorted by time.
C32_ChapterMarksMirror ==
    ChaptersApplied =>
        /\ w.chapter_marks = Offsets(mpv.chapter_list)
        /\ win.current_chapters = SortSeq(mpv.chapter_list, ByTime)

(***************************************************************************)
(* Reset-all of the options popover (SpecReset)                            *)
(***************************************************************************)
\* The state once the engine has run every asynchronous command it was sent.
RECURSIVE AllRun(_)
AllRun(s) == IF s.mpv.pending = <<>> THEN s ELSE AllRun(RunPending(s))

\* Every adjustment of the engine is at its default.
AllDefault(m) ==
    /\ m.video_aspect_override = -1
    /\ m.video_rotate = 0
    /\ m.vf \cap {"@hflip", "@vflip"} = {}
    /\ \A k \in 1..Len(Spins) : m.opts[Spins[k].prop] = Spins[k].dflt

\* C33: with the popover open and the engine alive, after
\* _on_reset_all_options and the commands it sent, the aspect override is
\* -1, the rotation 0, no flip filter is present, zoom, contrast, brightness,
\* gamma, saturation and the two delays are 0 and the speed is 1.0, whatever
\* the values were and whoever changed them last.
C33_ResetAllRestores ==
    (PopoverOpen /\ ~mpv.core_shutdown) =>
        AllDefault(AllRun(_on_reset_all_options(User)).mpv)

(***************************************************************************)
(* Scrolling over the volume slider (SpecVolume)                           *)
(***************************************************************************)
\* C34: a scroll over the volume slider writes nothing when it goes up at a
\* volume of volume_max or more or down at a volume of 0 or less, writes
\* the volume plus or minus 5 otherwise, and every value it writes lies in
\* 0..volume_max.
C34_VolumeScrollInRange ==
    ~mpv.core_shutdown =>
        \A dy \in {-1, 1} :
            LET wr == volume_written(User, dy)
                at_end == IF dy < 0 THEN mpv.volume >= VolumeMax
                          ELSE mpv.volume <= 0
            IN  /\ at_end => wr = <<>>
                /\ ~at_end => wr = <<IF dy < 0 THEN mpv.volume + 5
                                     ELSE mpv.volume - 5>>
                /\ wr # <<>> => wr[1] \in 0..VolumeMax

(***************************************************************************)
(* Previous and next (SpecPlaylist)                                         *)
(***************************************************************************)
\* The state a handler leaves, as the next handler finds it.
After(s) == [s EXCEPT !.obs = NoObs]

Previous == _on_previous_clicked(User)
Following == _on_next_clicked(User)

\* C35: with a live engine, a playlist of count >= 1 and the position in
\* 0..count-1, Previous leads to count-1 from position 0 and to pos-1
\* otherwise, Next leads to 0 from count-1 and to pos+1 otherwise; the
\* position stays in 0..count-1, and Previous then Next, as Next then
\* Previous, lead back to the position they started from.
C35_PrevNextWrap ==
    LET pos == mpv.playlist_pos
        count == mpv.playlist_count
    IN  (~mpv.core_shutdown /\ count >= 1 /\ pos \in 0..(count - 1)) =>
            /\ Previous.mpv.playlist_pos = IF pos = 0 THEN count - 1 ELSE pos - 1
            /\ Following.mpv.playlist_pos = IF pos = count - 1 THEN 0 ELSE pos + 1
            /\ (pos = 0) <=> (Previous.obs.cmds = <<>>)
            /\ (pos = count - 1) <=> (Following.obs.cmds = <<>>)
            /\ Previous.mpv.playlist_pos \in 0..(count - 1)
            /\ Following.mpv.playlist_pos \in 0..(count - 1)
            /\ _on_next_clicked(After(Previous)).mpv.playlist_pos = pos
            /\ _on_previous_clicked(After(Following)).mpv.playlist_pos = pos

\* The first of three entries plays: Previous wraps to the last, and Next
\* from there wraps back.
C35_Witness ==
    /\ ~mpv.core_shutdown /\ mpv.playlist_count = 3 /\ mpv.playlist_pos = 0
    /\ Previous.mpv.playlist_pos = 2
    /\ _on_next_clicked(After(Previous)).mpv.playlist_pos = 0

(***************************************************************************)
(* Order of the calls of _on_open_response (SpecPlaylist)                   *)
(***************************************************************************)
Opened(mode, files) == _on_open_response(User, mode, files)

\* The loadfile commands of the files chosen, in the order of the selection.
Appends(files) ==
    [k \in 1..Len(files) |-> <<"loadfile", <<files[k], "append-play">>>>]

Repeated(name, n) == [k \in 1..n |-> name]

NotFullscreen ==
    /\ FsQuiet
    /\ ~env.toplevel_fs /\ ~mpv.fullscreen /\ win.is_fullscreen # 1

\* C37: in every reachable state in which the window is not fullscreen the
\* pointer cursor is visible; a cursor hidden by the auto-hide callback in
\* fullscreen is shown again once fullscreen has been left.
C37_CursorHiddenOnlyInFullscreen == NotFullscreen => w.cursor # "none"

====
